---- MODULE Spec2Model ----
(***************************************************************************)
(* Model of rust/src/api.rs of svix-webhooks: the Svix client facade, its  *)
(* shared Configuration, the region rule of with_token, and the resource   *)
(* sub-clients that turn option structs into the parameters of a dispatch  *)
(* call of the generated operation catalog.                                *)
(*                                                                         *)
(* Rust values are represented as follows.                                 *)
(*   Option<T>      None is << >>, Some(v) is << v >>                      *)
(*   token: String  a sequence of one-character strings, so that           *)
(*                  str::split('.') is computed and not assumed            *)
(*   other Strings  TLA+ strings (they are only copied and compared)       *)
(*   Duration       a number of seconds                                    *)
(*   Arc<Configuration>  an index into the arena cfgs                      *)
(*   HyperClient    the number of the client built (its identity)          *)
(*                                                                         *)
(* call is the call of the caller that issues one call at a time; tasks    *)
(* are the calls in flight on tasks that run concurrently.                 *)
(***************************************************************************)
EXTENDS Integers, Sequences, FiniteSets, TLC

VARIABLES cfgs, facades, made, nclients, call, tasks

vars == <<cfgs, facades, made, nclients, call, tasks>>

-----------------------------------------------------------------------------
(* Bounds of the model *)

MaxParts == 2

MaxFacades == 2

MaxSetFields == 1

MaxTasks == 2

-----------------------------------------------------------------------------
(* Option<T> *)

None == << >>

Some(v) == << v >>

unwrap_or(o, d) == IF o = None THEN d ELSE o[1]

-----------------------------------------------------------------------------
(* Strings that with_token inspects, as character sequences *)

DOT == "."

STR_US == <<"u", "s">>

STR_EU == <<"e", "u">>

STR_IN == <<"i", "n">>

\* str::split('.'): the pieces between the delimiters, `cur` being the piece
\* under construction; an empty string yields one empty piece.
RECURSIVE split_from(_, _)
split_from(s, cur) ==
    IF s = << >> THEN << cur >>
    ELSE IF Head(s) = DOT THEN << cur >> \o split_from(Tail(s), << >>)
    ELSE split_from(Tail(s), Append(cur, Head(s)))

split(token) == split_from(token, << >>)

\* Iterator::last
last(items) == IF items = << >> THEN None ELSE Some(items[Len(items)])

region_url_first(token) ==
    LET piece == Some(split(token)[1])
    IN  IF piece = Some(STR_US) THEN "https://api.us.svix.com"
        ELSE IF piece = Some(STR_EU) THEN "https://api.eu.svix.com"
        ELSE IF piece = Some(STR_IN) THEN "https://api.in.svix.com"
        ELSE "https://api.svix.com"

region_url_default_eu(token) ==
    LET piece == last(split(token))
    IN  IF piece = Some(STR_US) THEN "https://api.us.svix.com"
        ELSE IF piece = Some(STR_EU) THEN "https://api.eu.svix.com"
        ELSE IF piece = Some(STR_IN) THEN "https://api.in.svix.com"
        ELSE "https://api.eu.svix.com"

\* the match of with_token on token.split('.').last()
region_url(token) ==
    LET piece == last(split(token))
    IN  IF piece = Some(STR_US) THEN "https://api.us.svix.com"
        ELSE IF piece = Some(STR_EU) THEN "https://api.eu.svix.com"
        ELSE IF piece = Some(STR_IN) THEN "https://api.in.svix.com"
        ELSE "https://api.svix.com"

-----------------------------------------------------------------------------
(* SvixOptions and Configuration *)

DefaultTimeoutSecs == 15

CRATE_VERSION == "CARGO_PKG_VERSION"

\* impl Default for SvixOptions
SvixOptions_default ==
    [debug |-> FALSE, server_url |-> None, timeout |-> Some(DefaultTimeoutSecs)]

\* format!("svix-libs/{CRATE_VERSION}/rust")
user_agent_string == <<"svix-libs", "/", CRATE_VERSION, "/", "rust">>

new_cfg_fixed_timeout(options, client) ==
    [user_agent |-> Some(user_agent_string),
     client |-> client,
     timeout |-> Some(unwrap_or(options.timeout, DefaultTimeoutSecs)),
     base_path |-> "",
     bearer_access_token |-> None]

\* the Configuration that Svix::new builds before it calls with_token
new_cfg(options, client) ==
    [user_agent |-> Some(user_agent_string),
     client |-> client,
     timeout |-> options.timeout,
     base_path |-> "",
     bearer_access_token |-> None]

with_token_base_path_ignores_override(server_url, token) == region_url(token)

\* let base_path = self.server_url.clone().unwrap_or_else(|| match ...)
with_token_base_path(server_url, token) ==
    unwrap_or(server_url, region_url(token))

with_token_cfg_keeps_region(self_cfg, server_url, token) ==
    [base_path |->
         unwrap_or(server_url,
             IF region_url(token) = "https://api.svix.com"
                /\ self_cfg.base_path # ""
             THEN self_cfg.base_path ELSE region_url(token)),
     user_agent |-> self_cfg.user_agent,
     bearer_access_token |-> Some(token),
     client |-> self_cfg.client,
     timeout |-> self_cfg.timeout]

with_token_cfg_drops_user_agent(self_cfg, server_url, token) ==
    [base_path |-> with_token_base_path(server_url, token),
     user_agent |-> None,
     bearer_access_token |-> Some(token),
     client |-> self_cfg.client,
     timeout |-> self_cfg.timeout]

with_token_cfg_new_client(self_cfg, server_url, token) ==
    [base_path |-> with_token_base_path(server_url, token),
     user_agent |-> self_cfg.user_agent,
     bearer_access_token |-> Some(token),
     client |-> self_cfg.client + 1,
     timeout |-> self_cfg.timeout]

\* the Configuration that with_token builds from self.cfg, self.server_url
\* and the new token
with_token_cfg(self_cfg, server_url, token) ==
    [base_path |-> with_token_base_path(server_url, token),
     user_agent |-> self_cfg.user_agent,
     bearer_access_token |-> Some(token),
     client |-> self_cfg.client,
     timeout |-> self_cfg.timeout]

-----------------------------------------------------------------------------
(* Inputs *)

Components == { << >>, STR_US, STR_EU, STR_IN, <<"s", "k">> }

RECURSIVE join(_)
join(parts) ==
    IF Len(parts) = 1 THEN parts[1]
    ELSE parts[1] \o << DOT >> \o join(Tail(parts))

\* every token of one to MaxParts components
Tokens == { join(p) : p \in UNION { [1..n -> Components] : n \in 1..MaxParts } }

\* the tokens used where the token is not the subject
FewTokens == { <<"s", "k">>, join(<< <<"s", "k">>, STR_EU >>) }

ServerUrls == { "https://custom.example" }

Timeouts == { None, Some(DefaultTimeoutSecs), Some(30) }

AllSvixOptions ==
    { None,
      Some([debug |-> TRUE, server_url |-> None,
            timeout |-> Some(DefaultTimeoutSecs)]) } \cup
    { Some([debug |-> FALSE, server_url |-> s, timeout |-> t]) :
        s \in { None } \cup { Some(u) : u \in ServerUrls }, t \in Timeouts }

FewSvixOptions ==
    { None,
      Some([debug |-> FALSE, server_url |-> Some("https://custom.example"),
            timeout |-> None]) }

-----------------------------------------------------------------------------
(* State after nothing has been constructed *)

Init ==
    /\ cfgs = << >>
    /\ facades = << >>
    /\ made = << >>
    /\ nclients = 0
    /\ call = None
    /\ tasks = [t \in 1..MaxTasks |-> None]

Svix_new_returns_placeholder(token, options) ==
    /\ Len(facades) < MaxFacades
    /\ LET opts == unwrap_or(options, SvixOptions_default)
           cfg == new_cfg(opts, nclients + 1)
           svix == [cfg |-> Len(cfgs) + 1, server_url |-> opts.server_url]
           out == with_token_cfg(cfg, svix.server_url, token)
       IN  /\ cfgs' = cfgs \o << cfg, out >>
           /\ facades' = Append(facades, svix)
           /\ made' = Append(made,
                  [by |-> "new", self |-> 0, token |-> token, options |-> options])
    /\ nclients' = nclients + 1
    /\ UNCHANGED <<call, tasks>>

\* Svix::new(token, options), its closing with_token(token) included
Svix_new(token, options) ==
    /\ Len(facades) < MaxFacades
    /\ LET opts == unwrap_or(options, SvixOptions_default)
           cfg == new_cfg(opts, nclients + 1)
           svix == [cfg |-> Len(cfgs) + 1, server_url |-> opts.server_url]
           out == with_token_cfg(cfg, svix.server_url, token)
       IN  /\ cfgs' = cfgs \o << cfg, out >>
           /\ facades' = Append(facades,
                  [cfg |-> Len(cfgs) + 2, server_url |-> svix.server_url])
           /\ made' = Append(made,
                  [by |-> "new", self |-> 0, token |-> token, options |-> options])
    /\ nclients' = nclients + 1
    /\ UNCHANGED <<call, tasks>>

Svix_with_token_in_place(f, token) ==
    /\ f \in 1..Len(facades)
    /\ Len(facades) < MaxFacades
    /\ LET self == facades[f]
           cfg == with_token_cfg(cfgs[self.cfg], self.server_url, token)
       IN  /\ cfgs' = Append([cfgs EXCEPT ![self.cfg] = cfg], cfg)
           /\ facades' = Append(facades,
                  [cfg |-> Len(cfgs) + 1, server_url |-> self.server_url])
    /\ made' = Append(made,
           [by |-> "with_token", self |-> f, token |-> token, options |-> None])
    /\ UNCHANGED <<nclients, call, tasks>>

Svix_with_token_retokens_self(f, token) ==
    /\ f \in 1..Len(facades)
    /\ Len(facades) < MaxFacades
    /\ LET self == facades[f]
       IN  /\ cfgs' = [cfgs EXCEPT ![self.cfg] =
                          with_token_cfg(cfgs[self.cfg], self.server_url, token)]
           /\ facades' = Append(facades, self)
    /\ made' = Append(made,
           [by |-> "with_token", self |-> f, token |-> token, options |-> None])
    /\ UNCHANGED <<nclients, call, tasks>>

\* self.with_token(token) on the facade numbered f
Svix_with_token(f, token) ==
    /\ f \in 1..Len(facades)
    /\ Len(facades) < MaxFacades
    /\ LET self == facades[f]
       IN  /\ cfgs' = Append(cfgs, with_token_cfg(cfgs[self.cfg], self.server_url, token))
           /\ facades' = Append(facades,
                  [cfg |-> Len(cfgs) + 1, server_url |-> self.server_url])
    /\ made' = Append(made,
           [by |-> "with_token", self |-> f, token |-> token, options |-> None])
    /\ UNCHANGED <<nclients, call, tasks>>

\* self.clone() on the facade numbered f (#[derive(Clone)])
Svix_clone(f) ==
    /\ f \in 1..Len(facades)
    /\ Len(facades) < MaxFacades
    /\ facades' = Append(facades, facades[f])
    /\ made' = Append(made,
           [by |-> "clone", self |-> f, token |-> made[f].token, options |-> None])
    /\ UNCHANGED <<cfgs, nclients, call, tasks>>

-----------------------------------------------------------------------------
(* A call of a sub-client method.  The method builds the parameters and     *)
(* awaits the dispatch function; the caller gets what the method returns.   *)
(* The caller issues one call at a time and may repeat a returned call with *)
(* the same arguments (a retry).                                            *)

Ok(v) == [ok |-> TRUE, val |-> v]

Err(e) == [ok |-> FALSE, val |-> e]

\* what a dispatch function can return: crate::error::Result, whose success
\* value is a response body or ()
DispatchResults ==
    { Ok("response"), Ok("unit"), Err("transport"), Err("api"),
      Err("serialization") }

\* the methods that end in `.await?; Ok(())`
UnitOps == { "Endpoint::recover", "Endpoint::replay_missing",
             "Endpoint::transformation_partial_update" }

\* the methods declared `-> Result<()>` that return the awaited dispatch call
\* as it is: the success value of their dispatch function is ()
PassUnitOps ==
    { "Authentication::logout", "Application::delete", "Endpoint::delete",
      "Endpoint::rotate_secret", "Endpoint::update_headers",
      "Endpoint::patch_headers", "Integration::delete", "EventType::delete",
      "Message::expunge_content", "MessageAttempt::resend",
      "MessageAttempt::expunge_content", "OperationalWebhookEndpoint::delete",
      "OperationalWebhookEndpoint::rotate_secret" }

\* the results the dispatch function of the method `op` can return: () on
\* success where the method's type forces it, a body or () where the method
\* throws the success value away, a body otherwise
dispatch_results(op) ==
    { r \in DispatchResults :
        r.ok => IF op \in PassUnitOps THEN r.val = "unit"
                ELSE IF op \in UnitOps THEN TRUE
                ELSE r.val = "response" }

return_of_swallows_error(op, r) ==
    IF op \in UnitOps THEN Ok("unit") ELSE r

return_of_keeps_body(op, r) == r

\* what the method returns for the dispatch result r
return_of(op, r) ==
    IF op \in UnitOps THEN (IF r.ok THEN Ok("unit") ELSE r) ELSE r

\* the caller is idle, or holds the returned call of `op`
CallerMay(op) ==
    IF call = None THEN TRUE
    ELSE call[1].state = "returned" /\ call[1].op = op

\* the caller may issue this call: a new one when idle, else the repetition
\* of the call that returned
MayCall(f, op, args, options) ==
    IF call = None THEN TRUE
    ELSE /\ call[1].state = "returned"
         /\ call[1].op = op
         /\ call[1].facade = f
         /\ call[1].args = args
         /\ call[1].options = options

\* the method `op` of the sub-client `sub` of facade f calls the dispatch
\* function `api` with sub.cfg and `params`, and awaits it
Invoke(f, op, sub, api, args, options, params) ==
    /\ f \in 1..Len(facades)
    /\ MayCall(f, op, args, options)
    /\ call' = Some([op |-> op, api |-> api, facade |-> f, cfg |-> sub.cfg,
                     configuration |-> cfgs[sub.cfg],
                     args |-> args, options |-> options, params |-> params,
                     state |-> "awaiting", dispatches |-> 1,
                     result |-> None, ret |-> None,
                     retry |-> call # None])
    /\ UNCHANGED <<cfgs, facades, made, nclients, tasks>>

Respond_retries_on_error(r) ==
    /\ call # None
    /\ call[1].state = "awaiting"
    /\ r \in dispatch_results(call[1].op)
    /\ call' = IF ~r.ok /\ call[1].dispatches < 2
               THEN Some([call[1] EXCEPT !.dispatches = 2])
               ELSE Some([call[1] EXCEPT !.state = "returned",
                              !.result = Some(r),
                              !.ret = Some(return_of(call[1].op, r))])
    /\ UNCHANGED <<cfgs, facades, made, nclients, tasks>>

\* the dispatch function returns r and the method returns to its caller
Respond(r) ==
    /\ call # None
    /\ call[1].state = "awaiting"
    /\ r \in dispatch_results(call[1].op)
    /\ call' = Some([call[1] EXCEPT !.state = "returned", !.result = Some(r),
                                    !.ret = Some(return_of(call[1].op, r))])
    /\ UNCHANGED <<cfgs, facades, made, nclients, tasks>>

\* the caller is done with the returned value
Finish ==
    /\ call # None
    /\ call[1].state = "returned"
    /\ call' = None
    /\ UNCHANGED <<cfgs, facades, made, nclients, tasks>>

-----------------------------------------------------------------------------
(* Option structs: #[derive(Default)] makes every field None *)

PostOptions_default ==
    [idempotency_key |-> None]

ListOptions_default ==
    [iterator |-> None, limit |-> None]

ApplicationListOptions_default ==
    [iterator |-> None, limit |-> None, order |-> None]

EndpointListOptions_default ==
    [iterator |-> None, limit |-> None, order |-> None]

EndpointStatsOptions_default ==
    [since |-> None, until |-> None]

IntegrationListOptions_default ==
    [iterator |-> None, limit |-> None, order |-> None]

EventTypeListOptions_default ==
    [iterator |-> None, limit |-> None, with_content |-> None,
     include_archived |-> None]

MessageListOptions_default_zero_limit ==
    [iterator |-> None, limit |-> Some(0), event_types |-> None,
     before |-> None, after |-> None, channel |-> None, with_content |-> None,
     tag |-> None]

MessageListOptions_default ==
    [iterator |-> None, limit |-> None, event_types |-> None, before |-> None,
     after |-> None, channel |-> None, with_content |-> None, tag |-> None]

MessageAttemptListOptions_default ==
    [iterator |-> None, limit |-> None, event_types |-> None, before |-> None,
     after |-> None, channel |-> None, tag |-> None, status |-> None,
     status_code_class |-> None, with_content |-> None, endpoint_id |-> None]

MessageAttemptListByEndpointOptions_default ==
    [iterator |-> None, limit |-> None, event_types |-> None, before |-> None,
     after |-> None, channel |-> None, tag |-> None, status |-> None,
     status_code_class |-> None, with_content |-> None, with_msg |-> None,
     endpoint_id |-> None]

OperationalWebhookEndpointListOptions_default ==
    [iterator |-> None, limit |-> None, order |-> None]

BackgroundTaskListOptions_default ==
    [iterator |-> None, limit |-> None, order |-> None, status |-> None,
     task |-> None]

-----------------------------------------------------------------------------
(* Resource accessors of Svix: a sub-client borrows the facade's cfg *)

\* Svix::authentication, Authentication::new
Svix_authentication(f) == [kind |-> "Authentication", cfg |-> facades[f].cfg]

\* Svix::application, Application::new
Svix_application(f) == [kind |-> "Application", cfg |-> facades[f].cfg]

\* Svix::endpoint, Endpoint::new
Svix_endpoint(f) == [kind |-> "Endpoint", cfg |-> facades[f].cfg]

\* Svix::integration, Integration::new
Svix_integration(f) == [kind |-> "Integration", cfg |-> facades[f].cfg]

\* Svix::event_type, EventType::new
Svix_event_type(f) == [kind |-> "EventType", cfg |-> facades[f].cfg]

Svix_message_of_first_facade(f) == [kind |-> "Message", cfg |-> facades[1].cfg]

\* Svix::message, Message::new
Svix_message(f) == [kind |-> "Message", cfg |-> facades[f].cfg]

\* Svix::message_attempt, MessageAttempt::new
Svix_message_attempt(f) == [kind |-> "MessageAttempt", cfg |-> facades[f].cfg]

\* Svix::operational_webhook_endpoint, OperationalWebhookEndpoint::new
Svix_operational_webhook_endpoint(f) == [kind |-> "OperationalWebhookEndpoint", cfg |-> facades[f].cfg]

\* Svix::background_task, BackgroundTask::new
Svix_background_task(f) == [kind |-> "BackgroundTask", cfg |-> facades[f].cfg]

\* Svix::statistics, Statistics::new
Svix_statistics(f) == [kind |-> "Statistics", cfg |-> facades[f].cfg]

-----------------------------------------------------------------------------
(* Authentication *)

\* the parameters Authentication::dashboard_access hands to v1_period_authentication_period_dashboard_access
Authentication_dashboard_access_params(app_id, options) ==
    LET o == unwrap_or(options, PostOptions_default)
    IN  [app_id |-> app_id, idempotency_key |-> o.idempotency_key]

\* Authentication::dashboard_access
Authentication_dashboard_access(f, app_id, options) ==
    Invoke(f, "Authentication::dashboard_access", Svix_authentication(f),
           "authentication_api::v1_period_authentication_period_dashboard_access",
           [app_id |-> app_id], options,
           Authentication_dashboard_access_params(app_id, options))

\* the parameters Authentication::app_portal_access hands to v1_period_authentication_period_app_portal_access
Authentication_app_portal_access_params(app_id, app_portal_access_in, options) ==
    LET o == unwrap_or(options, PostOptions_default)
    IN  [app_id |-> app_id, app_portal_access_in |-> app_portal_access_in,
         idempotency_key |-> o.idempotency_key]

\* Authentication::app_portal_access
Authentication_app_portal_access(f, app_id, app_portal_access_in, options) ==
    Invoke(f, "Authentication::app_portal_access", Svix_authentication(f),
           "authentication_api::v1_period_authentication_period_app_portal_access",
           [app_id |-> app_id, app_portal_access_in |-> app_portal_access_in], options,
           Authentication_app_portal_access_params(app_id, app_portal_access_in, options))

\* the parameters Authentication::logout hands to v1_period_authentication_period_logout
Authentication_logout_params(options) ==
    LET o == unwrap_or(options, PostOptions_default)
    IN  [idempotency_key |-> o.idempotency_key]

\* Authentication::logout
Authentication_logout(f, options) ==
    Invoke(f, "Authentication::logout", Svix_authentication(f),
           "authentication_api::v1_period_authentication_period_logout",
           << >>, options,
           Authentication_logout_params(options))

-----------------------------------------------------------------------------
(* Application *)

\* the parameters Application::list hands to v1_period_application_period_list
Application_list_params(options) ==
    LET o == unwrap_or(options, ApplicationListOptions_default)
    IN  [iterator |-> o.iterator, limit |-> o.limit, order |-> o.order]

\* Application::list
Application_list(f, options) ==
    Invoke(f, "Application::list", Svix_application(f),
           "application_api::v1_period_application_period_list",
           << >>, options,
           Application_list_params(options))

\* the parameters Application::create hands to v1_period_application_period_create
Application_create_params(application_in, options) ==
    LET o == unwrap_or(options, PostOptions_default)
    IN  [application_in |-> application_in,
         idempotency_key |-> o.idempotency_key, get_if_exists |-> None]

\* Application::create
Application_create(f, application_in, options) ==
    Invoke(f, "Application::create", Svix_application(f),
           "application_api::v1_period_application_period_create",
           [application_in |-> application_in], options,
           Application_create_params(application_in, options))

Application_get_or_create_params_flag_unset(application_in, options) ==
    LET o == unwrap_or(options, PostOptions_default)
    IN  [application_in |-> application_in,
         idempotency_key |-> o.idempotency_key, get_if_exists |-> None]

\* the parameters Application::get_or_create hands to v1_period_application_period_create
Application_get_or_create_params(application_in, options) ==
    LET o == unwrap_or(options, PostOptions_default)
    IN  [application_in |-> application_in,
         idempotency_key |-> o.idempotency_key, get_if_exists |-> Some(TRUE)]

\* Application::get_or_create
Application_get_or_create(f, application_in, options) ==
    Invoke(f, "Application::get_or_create", Svix_application(f),
           "application_api::v1_period_application_period_create",
           [application_in |-> application_in], options,
           Application_get_or_create_params(application_in, options))

\* Application::get
Application_get(f, app_id) ==
    Invoke(f, "Application::get", Svix_application(f),
           "application_api::v1_period_application_period_get",
           [app_id |-> app_id], None,
       [app_id |-> app_id])

Application_update_params_forwards_key(app_id, application_in, options) ==
    [app_id |-> app_id, application_in |-> application_in,
     idempotency_key |-> unwrap_or(options, PostOptions_default).idempotency_key]

\* the parameters Application::update hands to v1_period_application_period_update (its options argument is `_`)
Application_update_params(app_id, application_in, options) ==
    [app_id |-> app_id, application_in |-> application_in]

\* Application::update
Application_update(f, app_id, application_in, options) ==
    Invoke(f, "Application::update", Svix_application(f),
           "application_api::v1_period_application_period_update",
           [app_id |-> app_id, application_in |-> application_in], options,
           Application_update_params(app_id, application_in, options))

\* the parameters Application::patch hands to v1_period_application_period_patch (its options argument is `_`)
Application_patch_params(app_id, application_patch, options) ==
    [app_id |-> app_id, application_patch |-> application_patch]

\* Application::patch
Application_patch(f, app_id, application_patch, options) ==
    Invoke(f, "Application::patch", Svix_application(f),
           "application_api::v1_period_application_period_patch",
           [app_id |-> app_id, application_patch |-> application_patch], options,
           Application_patch_params(app_id, application_patch, options))

\* Application::delete
Application_delete(f, app_id) ==
    Invoke(f, "Application::delete", Svix_application(f),
           "application_api::v1_period_application_period_delete",
           [app_id |-> app_id], None,
       [app_id |-> app_id])

-----------------------------------------------------------------------------
(* Endpoint *)

\* the parameters Endpoint::list hands to v1_period_endpoint_period_list
Endpoint_list_params(app_id, options) ==
    LET o == unwrap_or(options, EndpointListOptions_default)
    IN  [app_id |-> app_id, order |-> o.order, iterator |-> o.iterator,
         limit |-> o.limit]

\* Endpoint::list
Endpoint_list(f, app_id, options) ==
    Invoke(f, "Endpoint::list", Svix_endpoint(f),
           "endpoint_api::v1_period_endpoint_period_list",
           [app_id |-> app_id], options,
           Endpoint_list_params(app_id, options))

Endpoint_create_params_drops_key(app_id, endpoint_in, options) ==
    [app_id |-> app_id, endpoint_in |-> endpoint_in, idempotency_key |-> None]

\* the parameters Endpoint::create hands to v1_period_endpoint_period_create
Endpoint_create_params(app_id, endpoint_in, options) ==
    LET o == unwrap_or(options, PostOptions_default)
    IN  [app_id |-> app_id, endpoint_in |-> endpoint_in,
         idempotency_key |-> o.idempotency_key]

\* Endpoint::create
Endpoint_create(f, app_id, endpoint_in, options) ==
    Invoke(f, "Endpoint::create", Svix_endpoint(f),
           "endpoint_api::v1_period_endpoint_period_create",
           [app_id |-> app_id, endpoint_in |-> endpoint_in], options,
           Endpoint_create_params(app_id, endpoint_in, options))

\* Endpoint::get
Endpoint_get(f, app_id, endpoint_id) ==
    Invoke(f, "Endpoint::get", Svix_endpoint(f),
           "endpoint_api::v1_period_endpoint_period_get",
           [app_id |-> app_id, endpoint_id |-> endpoint_id], None,
       [app_id |-> app_id, endpoint_id |-> endpoint_id])

\* the parameters Endpoint::update hands to v1_period_endpoint_period_update (its options argument is `_`)
Endpoint_update_params(app_id, endpoint_id, endpoint_update, options) ==
    [app_id |-> app_id, endpoint_id |-> endpoint_id,
     endpoint_update |-> endpoint_update]

\* Endpoint::update
Endpoint_update(f, app_id, endpoint_id, endpoint_update, options) ==
    Invoke(f, "Endpoint::update", Svix_endpoint(f),
           "endpoint_api::v1_period_endpoint_period_update",
           [app_id |-> app_id, endpoint_id |-> endpoint_id, endpoint_update |-> endpoint_update], options,
           Endpoint_update_params(app_id, endpoint_id, endpoint_update, options))

\* the parameters Endpoint::patch hands to v1_period_endpoint_period_patch (its options argument is `_`)
Endpoint_patch_params(app_id, endpoint_id, endpoint_patch, options) ==
    [app_id |-> app_id, endpoint_id |-> endpoint_id,
     endpoint_patch |-> endpoint_patch]

\* Endpoint::patch
Endpoint_patch(f, app_id, endpoint_id, endpoint_patch, options) ==
    Invoke(f, "Endpoint::patch", Svix_endpoint(f),
           "endpoint_api::v1_period_endpoint_period_patch",
           [app_id |-> app_id, endpoint_id |-> endpoint_id, endpoint_patch |-> endpoint_patch], options,
           Endpoint_patch_params(app_id, endpoint_id, endpoint_patch, options))

\* Endpoint::delete
Endpoint_delete(f, app_id, endpoint_id) ==
    Invoke(f, "Endpoint::delete", Svix_endpoint(f),
           "endpoint_api::v1_period_endpoint_period_delete",
           [app_id |-> app_id, endpoint_id |-> endpoint_id], None,
       [app_id |-> app_id, endpoint_id |-> endpoint_id])

\* Endpoint::get_secret
Endpoint_get_secret(f, app_id, endpoint_id) ==
    Invoke(f, "Endpoint::get_secret", Svix_endpoint(f),
           "endpoint_api::v1_period_endpoint_period_get_secret",
           [app_id |-> app_id, endpoint_id |-> endpoint_id], None,
       [app_id |-> app_id, endpoint_id |-> endpoint_id])

\* Endpoint::rotate_secret
Endpoint_rotate_secret(f, app_id, endpoint_id, endpoint_secret_rotate_in) ==
    Invoke(f, "Endpoint::rotate_secret", Svix_endpoint(f),
           "endpoint_api::v1_period_endpoint_period_rotate_secret",
           [app_id |-> app_id, endpoint_id |-> endpoint_id, endpoint_secret_rotate_in |-> endpoint_secret_rotate_in], None,
       [app_id |-> app_id, endpoint_id |-> endpoint_id,
            endpoint_secret_rotate_in |-> endpoint_secret_rotate_in,
            idempotency_key |-> None])

\* Endpoint::recover
Endpoint_recover(f, app_id, endpoint_id, recover_in) ==
    Invoke(f, "Endpoint::recover", Svix_endpoint(f),
           "endpoint_api::v1_period_endpoint_period_recover",
           [app_id |-> app_id, endpoint_id |-> endpoint_id, recover_in |-> recover_in], None,
       [app_id |-> app_id, endpoint_id |-> endpoint_id,
            recover_in |-> recover_in, idempotency_key |-> None])

\* Endpoint::get_headers
Endpoint_get_headers(f, app_id, endpoint_id) ==
    Invoke(f, "Endpoint::get_headers", Svix_endpoint(f),
           "endpoint_api::v1_period_endpoint_period_get_headers",
           [app_id |-> app_id, endpoint_id |-> endpoint_id], None,
       [app_id |-> app_id, endpoint_id |-> endpoint_id])

\* Endpoint::update_headers
Endpoint_update_headers(f, app_id, endpoint_id, endpoint_headers_in) ==
    Invoke(f, "Endpoint::update_headers", Svix_endpoint(f),
           "endpoint_api::v1_period_endpoint_period_update_headers",
           [app_id |-> app_id, endpoint_id |-> endpoint_id, endpoint_headers_in |-> endpoint_headers_in], None,
       [app_id |-> app_id, endpoint_id |-> endpoint_id,
            endpoint_headers_in |-> endpoint_headers_in])

\* Endpoint::patch_headers
Endpoint_patch_headers(f, app_id, endpoint_id, endpoint_headers_patch_in) ==
    Invoke(f, "Endpoint::patch_headers", Svix_endpoint(f),
           "endpoint_api::v1_period_endpoint_period_patch_headers",
           [app_id |-> app_id, endpoint_id |-> endpoint_id, endpoint_headers_patch_in |-> endpoint_headers_patch_in], None,
       [app_id |-> app_id, endpoint_id |-> endpoint_id,
            endpoint_headers_patch_in |-> endpoint_headers_patch_in])

\* the parameters Endpoint::get_stats hands to v1_period_endpoint_period_get_stats
Endpoint_get_stats_params(app_id, endpoint_id, options) ==
    LET o == unwrap_or(options, EndpointStatsOptions_default)
    IN  [app_id |-> app_id, endpoint_id |-> endpoint_id, since |-> o.since,
         until |-> o.until]

\* Endpoint::get_stats
Endpoint_get_stats(f, app_id, endpoint_id, options) ==
    Invoke(f, "Endpoint::get_stats", Svix_endpoint(f),
           "endpoint_api::v1_period_endpoint_period_get_stats",
           [app_id |-> app_id, endpoint_id |-> endpoint_id], options,
           Endpoint_get_stats_params(app_id, endpoint_id, options))

\* the parameters Endpoint::replay_missing hands to v1_period_endpoint_period_replay
Endpoint_replay_missing_params(app_id, endpoint_id, replay_in, options) ==
    LET o == unwrap_or(options, PostOptions_default)
    IN  [app_id |-> app_id, endpoint_id |-> endpoint_id,
         replay_in |-> replay_in, idempotency_key |-> o.idempotency_key]

\* Endpoint::replay_missing
Endpoint_replay_missing(f, app_id, endpoint_id, replay_in, options) ==
    Invoke(f, "Endpoint::replay_missing", Svix_endpoint(f),
           "endpoint_api::v1_period_endpoint_period_replay",
           [app_id |-> app_id, endpoint_id |-> endpoint_id, replay_in |-> replay_in], options,
           Endpoint_replay_missing_params(app_id, endpoint_id, replay_in, options))

\* Endpoint::transformation_get
Endpoint_transformation_get(f, app_id, endpoint_id) ==
    Invoke(f, "Endpoint::transformation_get", Svix_endpoint(f),
           "endpoint_api::v1_period_endpoint_period_transformation_get",
           [app_id |-> app_id, endpoint_id |-> endpoint_id], None,
       [app_id |-> app_id, endpoint_id |-> endpoint_id])

\* Endpoint::transformation_partial_update
Endpoint_transformation_partial_update(f, app_id, endpoint_id, endpoint_transformation_in) ==
    Invoke(f, "Endpoint::transformation_partial_update", Svix_endpoint(f),
           "endpoint_api::v1_period_endpoint_period_transformation_partial_update",
           [app_id |-> app_id, endpoint_id |-> endpoint_id, endpoint_transformation_in |-> endpoint_transformation_in], None,
       [app_id |-> app_id, endpoint_id |-> endpoint_id,
            endpoint_transformation_in |-> endpoint_transformation_in])

\* the parameters Endpoint::send_example hands to v1_period_endpoint_period_send_example
Endpoint_send_example_params(app_id, endpoint_id, event_example_in, options) ==
    LET o == unwrap_or(options, PostOptions_default)
    IN  [app_id |-> app_id, endpoint_id |-> endpoint_id,
         event_example_in |-> event_example_in,
         idempotency_key |-> o.idempotency_key]

\* Endpoint::send_example
Endpoint_send_example(f, app_id, endpoint_id, event_example_in, options) ==
    Invoke(f, "Endpoint::send_example", Svix_endpoint(f),
           "endpoint_api::v1_period_endpoint_period_send_example",
           [app_id |-> app_id, endpoint_id |-> endpoint_id, event_example_in |-> event_example_in], options,
           Endpoint_send_example_params(app_id, endpoint_id, event_example_in, options))

-----------------------------------------------------------------------------
(* Integration *)

\* the parameters Integration::list hands to v1_period_integration_period_list
Integration_list_params(app_id, options) ==
    LET o == unwrap_or(options, IntegrationListOptions_default)
    IN  [app_id |-> app_id, iterator |-> o.iterator, limit |-> o.limit,
         order |-> o.order]

\* Integration::list
Integration_list(f, app_id, options) ==
    Invoke(f, "Integration::list", Svix_integration(f),
           "integration_api::v1_period_integration_period_list",
           [app_id |-> app_id], options,
           Integration_list_params(app_id, options))

\* the parameters Integration::create hands to v1_period_integration_period_create
Integration_create_params(app_id, integration_in, options) ==
    LET o == unwrap_or(options, PostOptions_default)
    IN  [app_id |-> app_id, integration_in |-> integration_in,
         idempotency_key |-> o.idempotency_key]

\* Integration::create
Integration_create(f, app_id, integration_in, options) ==
    Invoke(f, "Integration::create", Svix_integration(f),
           "integration_api::v1_period_integration_period_create",
           [app_id |-> app_id, integration_in |-> integration_in], options,
           Integration_create_params(app_id, integration_in, options))

\* Integration::get
Integration_get(f, app_id, integ_id) ==
    Invoke(f, "Integration::get", Svix_integration(f),
           "integration_api::v1_period_integration_period_get",
           [app_id |-> app_id, integ_id |-> integ_id], None,
       [app_id |-> app_id, integ_id |-> integ_id])

\* the parameters Integration::update hands to v1_period_integration_period_update (its options argument is `_`)
Integration_update_params(app_id, integ_id, integration_update, options) ==
    [app_id |-> app_id, integ_id |-> integ_id,
     integration_update |-> integration_update]

\* Integration::update
Integration_update(f, app_id, integ_id, integration_update, options) ==
    Invoke(f, "Integration::update", Svix_integration(f),
           "integration_api::v1_period_integration_period_update",
           [app_id |-> app_id, integ_id |-> integ_id, integration_update |-> integration_update], options,
           Integration_update_params(app_id, integ_id, integration_update, options))

\* Integration::delete
Integration_delete(f, app_id, integ_id) ==
    Invoke(f, "Integration::delete", Svix_integration(f),
           "integration_api::v1_period_integration_period_delete",
           [app_id |-> app_id, integ_id |-> integ_id], None,
       [app_id |-> app_id, integ_id |-> integ_id])

\* Integration::get_key
Integration_get_key(f, app_id, integ_id) ==
    Invoke(f, "Integration::get_key", Svix_integration(f),
           "integration_api::v1_period_integration_period_get_key",
           [app_id |-> app_id, integ_id |-> integ_id], None,
       [app_id |-> app_id, integ_id |-> integ_id])

\* Integration::rotate_key
Integration_rotate_key(f, app_id, integ_id) ==
    Invoke(f, "Integration::rotate_key", Svix_integration(f),
           "integration_api::v1_period_integration_period_rotate_key",
           [app_id |-> app_id, integ_id |-> integ_id], None,
       [app_id |-> app_id, integ_id |-> integ_id, idempotency_key |-> None])

-----------------------------------------------------------------------------
(* EventType *)

EventType_list_params_orders_when_limited(options) ==
    LET o == unwrap_or(options, EventTypeListOptions_default)
    IN  [iterator |-> o.iterator, limit |-> o.limit,
         with_content |-> o.with_content,
         include_archived |-> o.include_archived,
         order |-> IF o.limit = None THEN None ELSE Some("Ascending")]

\* the parameters EventType::list hands to v1_period_event_type_period_list
EventType_list_params(options) ==
    LET o == unwrap_or(options, EventTypeListOptions_default)
    IN  [iterator |-> o.iterator, limit |-> o.limit,
         with_content |-> o.with_content,
         include_archived |-> o.include_archived, order |-> None]

\* EventType::list
EventType_list(f, options) ==
    Invoke(f, "EventType::list", Svix_event_type(f),
           "event_type_api::v1_period_event_type_period_list",
           << >>, options,
           EventType_list_params(options))

\* the parameters EventType::create hands to v1_period_event_type_period_create
EventType_create_params(event_type_in, options) ==
    LET o == unwrap_or(options, PostOptions_default)
    IN  [event_type_in |-> event_type_in,
         idempotency_key |-> o.idempotency_key]

\* EventType::create
EventType_create(f, event_type_in, options) ==
    Invoke(f, "EventType::create", Svix_event_type(f),
           "event_type_api::v1_period_event_type_period_create",
           [event_type_in |-> event_type_in], options,
           EventType_create_params(event_type_in, options))

\* EventType::get
EventType_get(f, event_type_name) ==
    Invoke(f, "EventType::get", Svix_event_type(f),
           "event_type_api::v1_period_event_type_period_get",
           [event_type_name |-> event_type_name], None,
       [event_type_name |-> event_type_name])

\* the parameters EventType::update hands to v1_period_event_type_period_update (its options argument is `_`)
EventType_update_params(event_type_name, event_type_update, options) ==
    [event_type_name |-> event_type_name,
     event_type_update |-> event_type_update]

\* EventType::update
EventType_update(f, event_type_name, event_type_update, options) ==
    Invoke(f, "EventType::update", Svix_event_type(f),
           "event_type_api::v1_period_event_type_period_update",
           [event_type_name |-> event_type_name, event_type_update |-> event_type_update], options,
           EventType_update_params(event_type_name, event_type_update, options))

\* the parameters EventType::patch hands to v1_period_event_type_period_patch (its options argument is `_`)
EventType_patch_params(event_type_name, event_type_patch, options) ==
    [event_type_name |-> event_type_name,
     event_type_patch |-> event_type_patch]

\* EventType::patch
EventType_patch(f, event_type_name, event_type_patch, options) ==
    Invoke(f, "EventType::patch", Svix_event_type(f),
           "event_type_api::v1_period_event_type_period_patch",
           [event_type_name |-> event_type_name, event_type_patch |-> event_type_patch], options,
           EventType_patch_params(event_type_name, event_type_patch, options))

\* EventType::delete
EventType_delete(f, event_type_name) ==
    Invoke(f, "EventType::delete", Svix_event_type(f),
           "event_type_api::v1_period_event_type_period_delete",
           [event_type_name |-> event_type_name], None,
       [event_type_name |-> event_type_name, expunge |-> None])

\* the parameters EventType::import_openapi hands to v1_period_event_type_period_import_openapi
EventType_import_openapi_params(event_type_import_open_api_in, options) ==
    LET o == unwrap_or(options, PostOptions_default)
    IN  [event_type_import_open_api_in |-> event_type_import_open_api_in,
         idempotency_key |-> o.idempotency_key]

\* EventType::import_openapi
EventType_import_openapi(f, event_type_import_open_api_in, options) ==
    Invoke(f, "EventType::import_openapi", Svix_event_type(f),
           "event_type_api::v1_period_event_type_period_import_openapi",
           [event_type_import_open_api_in |-> event_type_import_open_api_in], options,
           EventType_import_openapi_params(event_type_import_open_api_in, options))

-----------------------------------------------------------------------------
(* Message *)

\* the parameters Message::list hands to v1_period_message_period_list
Message_list_params(app_id, options) ==
    LET o == unwrap_or(options, MessageListOptions_default)
    IN  [app_id |-> app_id, iterator |-> o.iterator, limit |-> o.limit,
         event_types |-> o.event_types, before |-> o.before,
         after |-> o.after, channel |-> o.channel,
         with_content |-> o.with_content, tag |-> o.tag]

\* Message::list
Message_list(f, app_id, options) ==
    Invoke(f, "Message::list", Svix_message(f),
           "message_api::v1_period_message_period_list",
           [app_id |-> app_id], options,
           Message_list_params(app_id, options))

\* the parameters Message::create hands to v1_period_message_period_create
Message_create_params(app_id, message_in, options) ==
    LET o == unwrap_or(options, PostOptions_default)
    IN  [app_id |-> app_id, message_in |-> message_in,
         idempotency_key |-> o.idempotency_key, with_content |-> None]

\* Message::create
Message_create(f, app_id, message_in, options) ==
    Invoke(f, "Message::create", Svix_message(f),
           "message_api::v1_period_message_period_create",
           [app_id |-> app_id, message_in |-> message_in], options,
           Message_create_params(app_id, message_in, options))

\* Message::get
Message_get(f, app_id, msg_id) ==
    Invoke(f, "Message::get", Svix_message(f),
           "message_api::v1_period_message_period_get",
           [app_id |-> app_id, msg_id |-> msg_id], None,
       [app_id |-> app_id, msg_id |-> msg_id, with_content |-> None])

\* Message::expunge_content
Message_expunge_content(f, app_id, msg_id) ==
    Invoke(f, "Message::expunge_content", Svix_message(f),
           "message_api::v1_period_message_period_expunge_content",
           [app_id |-> app_id, msg_id |-> msg_id], None,
       [msg_id |-> msg_id, app_id |-> app_id])

-----------------------------------------------------------------------------
(* MessageAttempt *)

MessageAttempt_list_by_msg_params_swaps_dates(app_id, msg_id, options) ==
    LET o == unwrap_or(options, MessageAttemptListOptions_default)
    IN  [app_id |-> app_id, msg_id |-> msg_id, iterator |-> o.iterator,
         limit |-> o.limit, event_types |-> o.event_types, before |-> o.after,
         after |-> o.before, channel |-> o.channel, tag |-> o.tag,
         status |-> o.status, status_code_class |-> o.status_code_class,
         endpoint_id |-> o.endpoint_id, with_content |-> o.with_content]

\* the parameters MessageAttempt::list_by_msg hands to v1_period_message_attempt_period_list_by_msg
MessageAttempt_list_by_msg_params(app_id, msg_id, options) ==
    LET o == unwrap_or(options, MessageAttemptListOptions_default)
    IN  [app_id |-> app_id, msg_id |-> msg_id, iterator |-> o.iterator,
         limit |-> o.limit, event_types |-> o.event_types,
         before |-> o.before, after |-> o.after, channel |-> o.channel,
         tag |-> o.tag, status |-> o.status,
         status_code_class |-> o.status_code_class,
         endpoint_id |-> o.endpoint_id, with_content |-> o.with_content]

\* MessageAttempt::list_by_msg
MessageAttempt_list_by_msg(f, app_id, msg_id, options) ==
    Invoke(f, "MessageAttempt::list_by_msg", Svix_message_attempt(f),
           "message_attempt_api::v1_period_message_attempt_period_list_by_msg",
           [app_id |-> app_id, msg_id |-> msg_id], options,
           MessageAttempt_list_by_msg_params(app_id, msg_id, options))

\* the parameters MessageAttempt::list_by_endpoint hands to v1_period_message_attempt_period_list_by_endpoint
MessageAttempt_list_by_endpoint_params(app_id, endpoint_id, options) ==
    LET o == unwrap_or(options, MessageAttemptListByEndpointOptions_default)
    IN  [app_id |-> app_id, endpoint_id |-> endpoint_id,
         iterator |-> o.iterator, limit |-> o.limit,
         event_types |-> o.event_types, before |-> o.before,
         after |-> o.after, channel |-> o.channel, tag |-> o.tag,
         status |-> o.status, status_code_class |-> o.status_code_class,
         with_content |-> o.with_content, with_msg |-> o.with_msg]

\* MessageAttempt::list_by_endpoint
MessageAttempt_list_by_endpoint(f, app_id, endpoint_id, options) ==
    Invoke(f, "MessageAttempt::list_by_endpoint", Svix_message_attempt(f),
           "message_attempt_api::v1_period_message_attempt_period_list_by_endpoint",
           [app_id |-> app_id, endpoint_id |-> endpoint_id], options,
           MessageAttempt_list_by_endpoint_params(app_id, endpoint_id, options))

\* the parameters MessageAttempt::list_attempted_messages hands to v1_period_message_attempt_period_list_attempted_messages
MessageAttempt_list_attempted_messages_params(app_id, endpoint_id, options) ==
    LET o == unwrap_or(options, MessageAttemptListOptions_default)
    IN  [app_id |-> app_id, endpoint_id |-> endpoint_id,
         iterator |-> o.iterator, limit |-> o.limit, before |-> o.before,
         after |-> o.after, channel |-> o.channel, tag |-> o.tag,
         status |-> o.status, with_content |-> o.with_content,
         event_types |-> o.event_types]

\* MessageAttempt::list_attempted_messages
MessageAttempt_list_attempted_messages(f, app_id, endpoint_id, options) ==
    Invoke(f, "MessageAttempt::list_attempted_messages", Svix_message_attempt(f),
           "message_attempt_api::v1_period_message_attempt_period_list_attempted_messages",
           [app_id |-> app_id, endpoint_id |-> endpoint_id], options,
           MessageAttempt_list_attempted_messages_params(app_id, endpoint_id, options))

\* the parameters MessageAttempt::list_attempted_destinations hands to v1_period_message_attempt_period_list_attempted_destinations
MessageAttempt_list_attempted_destinations_params(app_id, msg_id, options) ==
    LET o == unwrap_or(options, ListOptions_default)
    IN  [app_id |-> app_id, msg_id |-> msg_id, iterator |-> o.iterator,
         limit |-> o.limit]

\* MessageAttempt::list_attempted_destinations
MessageAttempt_list_attempted_destinations(f, app_id, msg_id, options) ==
    Invoke(f, "MessageAttempt::list_attempted_destinations", Svix_message_attempt(f),
           "message_attempt_api::v1_period_message_attempt_period_list_attempted_destinations",
           [app_id |-> app_id, msg_id |-> msg_id], options,
           MessageAttempt_list_attempted_destinations_params(app_id, msg_id, options))

\* the parameters MessageAttempt::list_attempts_for_endpoint hands to v1_period_message_attempt_period_list_by_endpoint_deprecated
MessageAttempt_list_attempts_for_endpoint_params(app_id, msg_id, endpoint_id, options) ==
    LET o == unwrap_or(options, MessageAttemptListOptions_default)
    IN  [app_id |-> app_id, endpoint_id |-> endpoint_id, msg_id |-> msg_id,
         iterator |-> o.iterator, limit |-> o.limit,
         event_types |-> o.event_types, before |-> o.before,
         after |-> o.after, channel |-> o.channel, tag |-> o.tag,
         status |-> o.status]

\* MessageAttempt::list_attempts_for_endpoint
MessageAttempt_list_attempts_for_endpoint(f, app_id, msg_id, endpoint_id, options) ==
    Invoke(f, "MessageAttempt::list_attempts_for_endpoint", Svix_message_attempt(f),
           "message_attempt_api::v1_period_message_attempt_period_list_by_endpoint_deprecated",
           [app_id |-> app_id, msg_id |-> msg_id, endpoint_id |-> endpoint_id], options,
           MessageAttempt_list_attempts_for_endpoint_params(app_id, msg_id, endpoint_id, options))

\* MessageAttempt::get
MessageAttempt_get(f, app_id, msg_id, attempt_id) ==
    Invoke(f, "MessageAttempt::get", Svix_message_attempt(f),
           "message_attempt_api::v1_period_message_attempt_period_get",
           [app_id |-> app_id, msg_id |-> msg_id, attempt_id |-> attempt_id], None,
       [app_id |-> app_id, msg_id |-> msg_id, attempt_id |-> attempt_id])

\* MessageAttempt::resend
MessageAttempt_resend(f, app_id, msg_id, endpoint_id) ==
    Invoke(f, "MessageAttempt::resend", Svix_message_attempt(f),
           "message_attempt_api::v1_period_message_attempt_period_resend",
           [app_id |-> app_id, msg_id |-> msg_id, endpoint_id |-> endpoint_id], None,
       [app_id |-> app_id, msg_id |-> msg_id, endpoint_id |-> endpoint_id,
            idempotency_key |-> None])

\* MessageAttempt::expunge_content
MessageAttempt_expunge_content(f, app_id, msg_id, attempt_id) ==
    Invoke(f, "MessageAttempt::expunge_content", Svix_message_attempt(f),
           "message_attempt_api::v1_period_message_attempt_period_expunge_content",
           [app_id |-> app_id, msg_id |-> msg_id, attempt_id |-> attempt_id], None,
       [app_id |-> app_id, msg_id |-> msg_id, attempt_id |-> attempt_id])

-----------------------------------------------------------------------------
(* OperationalWebhookEndpoint *)

\* the parameters OperationalWebhookEndpoint::list hands to list_operational_webhook_endpoints
OperationalWebhookEndpoint_list_params(options) ==
    LET o == unwrap_or(options, OperationalWebhookEndpointListOptions_default)
    IN  [order |-> o.order, iterator |-> o.iterator, limit |-> o.limit]

\* OperationalWebhookEndpoint::list
OperationalWebhookEndpoint_list(f, options) ==
    Invoke(f, "OperationalWebhookEndpoint::list", Svix_operational_webhook_endpoint(f),
           "operational_webhook_endpoint_api::list_operational_webhook_endpoints",
           << >>, options,
           OperationalWebhookEndpoint_list_params(options))

\* the parameters OperationalWebhookEndpoint::create hands to create_operational_webhook_endpoint
OperationalWebhookEndpoint_create_params(endpoint_in, options) ==
    LET o == unwrap_or(options, PostOptions_default)
    IN  [operational_webhook_endpoint_in |-> endpoint_in,
         idempotency_key |-> o.idempotency_key]

\* OperationalWebhookEndpoint::create
OperationalWebhookEndpoint_create(f, endpoint_in, options) ==
    Invoke(f, "OperationalWebhookEndpoint::create", Svix_operational_webhook_endpoint(f),
           "operational_webhook_endpoint_api::create_operational_webhook_endpoint",
           [endpoint_in |-> endpoint_in], options,
           OperationalWebhookEndpoint_create_params(endpoint_in, options))

\* OperationalWebhookEndpoint::get
OperationalWebhookEndpoint_get(f, endpoint_id) ==
    Invoke(f, "OperationalWebhookEndpoint::get", Svix_operational_webhook_endpoint(f),
           "operational_webhook_endpoint_api::get_operational_webhook_endpoint",
           [endpoint_id |-> endpoint_id], None,
       [endpoint_id |-> endpoint_id])

\* the parameters OperationalWebhookEndpoint::update hands to update_operational_webhook_endpoint (its options argument is `_`)
OperationalWebhookEndpoint_update_params(endpoint_id, endpoint_update, options) ==
    [endpoint_id |-> endpoint_id,
     operational_webhook_endpoint_update |-> endpoint_update]

\* OperationalWebhookEndpoint::update
OperationalWebhookEndpoint_update(f, endpoint_id, endpoint_update, options) ==
    Invoke(f, "OperationalWebhookEndpoint::update", Svix_operational_webhook_endpoint(f),
           "operational_webhook_endpoint_api::update_operational_webhook_endpoint",
           [endpoint_id |-> endpoint_id, endpoint_update |-> endpoint_update], options,
           OperationalWebhookEndpoint_update_params(endpoint_id, endpoint_update, options))

\* OperationalWebhookEndpoint::delete
OperationalWebhookEndpoint_delete(f, endpoint_id) ==
    Invoke(f, "OperationalWebhookEndpoint::delete", Svix_operational_webhook_endpoint(f),
           "operational_webhook_endpoint_api::delete_operational_webhook_endpoint",
           [endpoint_id |-> endpoint_id], None,
       [endpoint_id |-> endpoint_id])

\* OperationalWebhookEndpoint::get_secret
OperationalWebhookEndpoint_get_secret(f, endpoint_id) ==
    Invoke(f, "OperationalWebhookEndpoint::get_secret", Svix_operational_webhook_endpoint(f),
           "operational_webhook_endpoint_api::get_operational_webhook_endpoint_secret",
           [endpoint_id |-> endpoint_id], None,
       [endpoint_id |-> endpoint_id])

\* OperationalWebhookEndpoint::rotate_secret
OperationalWebhookEndpoint_rotate_secret(f, endpoint_id, endpoint_secret_rotate_in) ==
    Invoke(f, "OperationalWebhookEndpoint::rotate_secret", Svix_operational_webhook_endpoint(f),
           "operational_webhook_endpoint_api::rotate_operational_webhook_endpoint_secret",
           [endpoint_id |-> endpoint_id, endpoint_secret_rotate_in |-> endpoint_secret_rotate_in], None,
       [endpoint_id |-> endpoint_id,
            operational_webhook_endpoint_secret_in |-> endpoint_secret_rotate_in,
            idempotency_key |-> None])

-----------------------------------------------------------------------------
(* BackgroundTask *)

\* the parameters BackgroundTask::list hands to list_background_tasks
BackgroundTask_list_params(options) ==
    LET o == unwrap_or(options, BackgroundTaskListOptions_default)
    IN  [status |-> o.status, task |-> o.task, limit |-> o.limit,
         iterator |-> o.iterator, order |-> o.order]

\* BackgroundTask::list
BackgroundTask_list(f, options) ==
    Invoke(f, "BackgroundTask::list", Svix_background_task(f),
           "background_tasks_api::list_background_tasks",
           << >>, options,
           BackgroundTask_list_params(options))

\* BackgroundTask::get
BackgroundTask_get(f, task_id) ==
    Invoke(f, "BackgroundTask::get", Svix_background_task(f),
           "background_tasks_api::get_background_task",
           [task_id |-> task_id], None,
       [task_id |-> task_id])

-----------------------------------------------------------------------------
(* Statistics *)

\* the parameters Statistics::aggregate_app_stats hands to v1_period_statistics_period_aggregate_app_stats
Statistics_aggregate_app_stats_params_swaps_range(stats_options, options) ==
    LET o == unwrap_or(options, PostOptions_default)
    IN  [app_usage_stats_in |-> [app_ids |-> stats_options.app_ids, since |-> stats_options.until, until |-> stats_options.since],
         idempotency_key |-> o.idempotency_key]

Statistics_aggregate_app_stats_params(stats_options, options) ==
    LET o == unwrap_or(options, PostOptions_default)
    IN  [app_usage_stats_in |-> [app_ids |-> stats_options.app_ids, since |-> stats_options.since, until |-> stats_options.until],
         idempotency_key |-> o.idempotency_key]

\* Statistics::aggregate_app_stats
Statistics_aggregate_app_stats(f, stats_options, options) ==
    Invoke(f, "Statistics::aggregate_app_stats", Svix_statistics(f),
           "statistics_api::v1_period_statistics_period_aggregate_app_stats",
           [stats_options |-> stats_options], options,
           Statistics_aggregate_app_stats_params(stats_options, options))

\* Statistics::aggregate_event_types
Statistics_aggregate_event_types(f) ==
    Invoke(f, "Statistics::aggregate_event_types", Svix_statistics(f),
           "statistics_api::v1_period_statistics_period_aggregate_event_types",
           << >>, None,
       << >>)

-----------------------------------------------------------------------------
(* Inputs of the calls *)

\* the value a caller sets an option field to
FieldVal ==
    [idempotency_key |-> "idempotency_key_1", iterator |-> "iterator_1",
     limit |-> 50, order |-> "Descending", since |-> "2024-01-01T00:00:00Z",
     until |-> "2024-02-01T00:00:00Z", with_content |-> TRUE,
     include_archived |-> TRUE, event_types |-> <<"user.signup">>,
     before |-> "2024-04-01T00:00:00Z", after |-> "2024-03-01T00:00:00Z",
     channel |-> "channel_1", tag |-> "tag_1", status |-> "Success",
     status_code_class |-> "Code2xx", endpoint_id |-> "endpoint_id_2",
     with_msg |-> TRUE, task |-> "endpoint.replay"]

\* the option struct with exactly the fields of `set` set
WithSet(default, set) ==
    [fld \in DOMAIN default |-> IF fld \in set THEN Some(FieldVal[fld]) ELSE None]

\* option structs with at most MaxSetFields fields set, or with all of them
OptionRecords(default) ==
    { WithSet(default, set) :
        set \in { x \in SUBSET DOMAIN default :
                    Cardinality(x) <= MaxSetFields \/ x = DOMAIN default } }

\* the Option<...Options> argument
MaybeOptions(default) == { None } \cup { Some(r) : r \in OptionRecords(default) }

\* the Option<...Options> argument: absent, or with every field set
FewOptions(default) == { None, Some(WithSet(default, DOMAIN default)) }

Pick(few, all, some) == IF few THEN some ELSE all

\* the options arguments tried for each option struct
PostOptionsInputs == MaybeOptions(PostOptions_default)

ApplicationListOptionsInputs == MaybeOptions(ApplicationListOptions_default)

EndpointListOptionsInputs == MaybeOptions(EndpointListOptions_default)

EndpointStatsOptionsInputs == MaybeOptions(EndpointStatsOptions_default)

IntegrationListOptionsInputs == MaybeOptions(IntegrationListOptions_default)

EventTypeListOptionsInputs == MaybeOptions(EventTypeListOptions_default)

MessageListOptionsInputs == MaybeOptions(MessageListOptions_default)

MessageAttemptListOptionsInputs == MaybeOptions(MessageAttemptListOptions_default)

MessageAttemptListByEndpointOptionsInputs == MaybeOptions(MessageAttemptListByEndpointOptions_default)

ListOptionsInputs == MaybeOptions(ListOptions_default)

OperationalWebhookEndpointListOptionsInputs == MaybeOptions(OperationalWebhookEndpointListOptions_default)

BackgroundTaskListOptionsInputs == MaybeOptions(BackgroundTaskListOptions_default)

\* the options arguments tried where the options are not the subject
PostOptionsFew == FewOptions(PostOptions_default)

ApplicationListOptionsFew == FewOptions(ApplicationListOptions_default)

EndpointListOptionsFew == FewOptions(EndpointListOptions_default)

EndpointStatsOptionsFew == FewOptions(EndpointStatsOptions_default)

IntegrationListOptionsFew == FewOptions(IntegrationListOptions_default)

EventTypeListOptionsFew == FewOptions(EventTypeListOptions_default)

MessageListOptionsFew == FewOptions(MessageListOptions_default)

MessageAttemptListOptionsFew == FewOptions(MessageAttemptListOptions_default)

MessageAttemptListByEndpointOptionsFew == FewOptions(MessageAttemptListByEndpointOptions_default)

ListOptionsFew == FewOptions(ListOptions_default)

OperationalWebhookEndpointListOptionsFew == FewOptions(OperationalWebhookEndpointListOptions_default)

BackgroundTaskListOptionsFew == FewOptions(BackgroundTaskListOptions_default)

ApplicationIns == { "application_in_1", "application_in_2" }

AggregateAppStatsOptionsSet ==
    { [app_ids |-> a, since |-> "2024-01-01T00:00:00Z",
       until |-> "2024-02-01T00:00:00Z"] : a \in { None, Some(<<"app_id_1">>) } }

-----------------------------------------------------------------------------
(* Construction and re-tokening alone, over every token and every option *)

\* the first facade is re-tokened with every token when its own token is one
\* of FewTokens; every other re-tokening is with the tokens of FewTokens
RetokenTokens(f) ==
    IF Len(facades) = 1 /\ made[f].token \in FewTokens THEN Tokens ELSE FewTokens

NextConfig ==
    \/ \E token \in Tokens, options \in AllSvixOptions :
          facades = << >> /\ Svix_new(token, options)
    \/ \E f \in 1..Len(facades) : \E token \in RetokenTokens(f) :
          Svix_with_token(f, token)
    \/ \E f \in 1..Len(facades) : Svix_clone(f)

SpecConfig == Init /\ [][NextConfig]_vars

-----------------------------------------------------------------------------
(* The client as a whole: construction, re-tokening and calls *)

\* a call of any method of any sub-client; `few` chooses the smaller sets of
\* options arguments
Calls(few) ==
    \/ /\ CallerMay("Authentication::dashboard_access")
       /\ \E f \in 1..Len(facades),
             options \in Pick(few, PostOptionsInputs, PostOptionsFew) :
             Authentication_dashboard_access(f, "app_id_1", options)
    \/ /\ CallerMay("Authentication::app_portal_access")
       /\ \E f \in 1..Len(facades),
             options \in Pick(few, PostOptionsInputs, PostOptionsFew) :
             Authentication_app_portal_access(f, "app_id_1",
                 "app_portal_access_in_1", options)
    \/ /\ CallerMay("Authentication::logout")
       /\ \E f \in 1..Len(facades),
             options \in Pick(few, PostOptionsInputs, PostOptionsFew) :
             Authentication_logout(f, options)
    \/ /\ CallerMay("Application::list")
       /\ \E f \in 1..Len(facades),
             options \in Pick(few, ApplicationListOptionsInputs, ApplicationListOptionsFew) :
             Application_list(f, options)
    \/ /\ CallerMay("Application::create")
       /\ \E f \in 1..Len(facades), application_in \in ApplicationIns,
             options \in Pick(few, PostOptionsInputs, PostOptionsFew) :
             Application_create(f, application_in, options)
    \/ /\ CallerMay("Application::get_or_create")
       /\ \E f \in 1..Len(facades), application_in \in ApplicationIns,
             options \in Pick(few, PostOptionsInputs, PostOptionsFew) :
             Application_get_or_create(f, application_in, options)
    \/ /\ CallerMay("Application::get")
       /\ \E f \in 1..Len(facades) :
             Application_get(f, "app_id_1")
    \/ /\ CallerMay("Application::update")
       /\ \E f \in 1..Len(facades), application_in \in ApplicationIns,
             options \in Pick(few, PostOptionsInputs, PostOptionsFew) :
             Application_update(f, "app_id_1", application_in, options)
    \/ /\ CallerMay("Application::patch")
       /\ \E f \in 1..Len(facades),
             options \in Pick(few, PostOptionsInputs, PostOptionsFew) :
             Application_patch(f, "app_id_1", "application_patch_1", options)
    \/ /\ CallerMay("Application::delete")
       /\ \E f \in 1..Len(facades) :
             Application_delete(f, "app_id_1")
    \/ /\ CallerMay("Endpoint::list")
       /\ \E f \in 1..Len(facades),
             options \in Pick(few, EndpointListOptionsInputs, EndpointListOptionsFew) :
             Endpoint_list(f, "app_id_1", options)
    \/ /\ CallerMay("Endpoint::create")
       /\ \E f \in 1..Len(facades),
             options \in Pick(few, PostOptionsInputs, PostOptionsFew) :
             Endpoint_create(f, "app_id_1", "endpoint_in_1", options)
    \/ /\ CallerMay("Endpoint::get")
       /\ \E f \in 1..Len(facades) :
             Endpoint_get(f, "app_id_1", "endpoint_id_1")
    \/ /\ CallerMay("Endpoint::update")
       /\ \E f \in 1..Len(facades),
             options \in Pick(few, PostOptionsInputs, PostOptionsFew) :
             Endpoint_update(f, "app_id_1", "endpoint_id_1",
                 "endpoint_update_1", options)
    \/ /\ CallerMay("Endpoint::patch")
       /\ \E f \in 1..Len(facades),
             options \in Pick(few, PostOptionsInputs, PostOptionsFew) :
             Endpoint_patch(f, "app_id_1", "endpoint_id_1", "endpoint_patch_1",
                 options)
    \/ /\ CallerMay("Endpoint::delete")
       /\ \E f \in 1..Len(facades) :
             Endpoint_delete(f, "app_id_1", "endpoint_id_1")
    \/ /\ CallerMay("Endpoint::get_secret")
       /\ \E f \in 1..Len(facades) :
             Endpoint_get_secret(f, "app_id_1", "endpoint_id_1")
    \/ /\ CallerMay("Endpoint::rotate_secret")
       /\ \E f \in 1..Len(facades) :
             Endpoint_rotate_secret(f, "app_id_1", "endpoint_id_1",
                 "endpoint_secret_rotate_in_1")
    \/ /\ CallerMay("Endpoint::recover")
       /\ \E f \in 1..Len(facades) :
             Endpoint_recover(f, "app_id_1", "endpoint_id_1", "recover_in_1")
    \/ /\ CallerMay("Endpoint::get_headers")
       /\ \E f \in 1..Len(facades) :
             Endpoint_get_headers(f, "app_id_1", "endpoint_id_1")
    \/ /\ CallerMay("Endpoint::update_headers")
       /\ \E f \in 1..Len(facades) :
             Endpoint_update_headers(f, "app_id_1", "endpoint_id_1",
                 "endpoint_headers_in_1")
    \/ /\ CallerMay("Endpoint::patch_headers")
       /\ \E f \in 1..Len(facades) :
             Endpoint_patch_headers(f, "app_id_1", "endpoint_id_1",
                 "endpoint_headers_patch_in_1")
    \/ /\ CallerMay("Endpoint::get_stats")
       /\ \E f \in 1..Len(facades),
             options \in Pick(few, EndpointStatsOptionsInputs, EndpointStatsOptionsFew) :
             Endpoint_get_stats(f, "app_id_1", "endpoint_id_1", options)
    \/ /\ CallerMay("Endpoint::replay_missing")
       /\ \E f \in 1..Len(facades),
             options \in Pick(few, PostOptionsInputs, PostOptionsFew) :
             Endpoint_replay_missing(f, "app_id_1", "endpoint_id_1",
                 "replay_in_1", options)
    \/ /\ CallerMay("Endpoint::transformation_get")
       /\ \E f \in 1..Len(facades) :
             Endpoint_transformation_get(f, "app_id_1", "endpoint_id_1")
    \/ /\ CallerMay("Endpoint::transformation_partial_update")
       /\ \E f \in 1..Len(facades) :
             Endpoint_transformation_partial_update(f, "app_id_1",
                 "endpoint_id_1", "endpoint_transformation_in_1")
    \/ /\ CallerMay("Endpoint::send_example")
       /\ \E f \in 1..Len(facades),
             options \in Pick(few, PostOptionsInputs, PostOptionsFew) :
             Endpoint_send_example(f, "app_id_1", "endpoint_id_1",
                 "event_example_in_1", options)
    \/ /\ CallerMay("Integration::list")
       /\ \E f \in 1..Len(facades),
             options \in Pick(few, IntegrationListOptionsInputs, IntegrationListOptionsFew) :
             Integration_list(f, "app_id_1", options)
    \/ /\ CallerMay("Integration::create")
       /\ \E f \in 1..Len(facades),
             options \in Pick(few, PostOptionsInputs, PostOptionsFew) :
             Integration_create(f, "app_id_1", "integration_in_1", options)
    \/ /\ CallerMay("Integration::get")
       /\ \E f \in 1..Len(facades) :
             Integration_get(f, "app_id_1", "integ_id_1")
    \/ /\ CallerMay("Integration::update")
       /\ \E f \in 1..Len(facades),
             options \in Pick(few, PostOptionsInputs, PostOptionsFew) :
             Integration_update(f, "app_id_1", "integ_id_1",
                 "integration_update_1", options)
    \/ /\ CallerMay("Integration::delete")
       /\ \E f \in 1..Len(facades) :
             Integration_delete(f, "app_id_1", "integ_id_1")
    \/ /\ CallerMay("Integration::get_key")
       /\ \E f \in 1..Len(facades) :
             Integration_get_key(f, "app_id_1", "integ_id_1")
    \/ /\ CallerMay("Integration::rotate_key")
       /\ \E f \in 1..Len(facades) :
             Integration_rotate_key(f, "app_id_1", "integ_id_1")
    \/ /\ CallerMay("EventType::list")
       /\ \E f \in 1..Len(facades),
             options \in Pick(few, EventTypeListOptionsInputs, EventTypeListOptionsFew) :
             EventType_list(f, options)
    \/ /\ CallerMay("EventType::create")
       /\ \E f \in 1..Len(facades),
             options \in Pick(few, PostOptionsInputs, PostOptionsFew) :
             EventType_create(f, "event_type_in_1", options)
    \/ /\ CallerMay("EventType::get")
       /\ \E f \in 1..Len(facades) :
             EventType_get(f, "event_type_name_1")
    \/ /\ CallerMay("EventType::update")
       /\ \E f \in 1..Len(facades),
             options \in Pick(few, PostOptionsInputs, PostOptionsFew) :
             EventType_update(f, "event_type_name_1", "event_type_update_1",
                 options)
    \/ /\ CallerMay("EventType::patch")
       /\ \E f \in 1..Len(facades),
             options \in Pick(few, PostOptionsInputs, PostOptionsFew) :
             EventType_patch(f, "event_type_name_1", "event_type_patch_1",
                 options)
    \/ /\ CallerMay("EventType::delete")
       /\ \E f \in 1..Len(facades) :
             EventType_delete(f, "event_type_name_1")
    \/ /\ CallerMay("EventType::import_openapi")
       /\ \E f \in 1..Len(facades),
             options \in Pick(few, PostOptionsInputs, PostOptionsFew) :
             EventType_import_openapi(f, "event_type_import_open_api_in_1",
                 options)
    \/ /\ CallerMay("Message::list")
       /\ \E f \in 1..Len(facades),
             options \in Pick(few, MessageListOptionsInputs, MessageListOptionsFew) :
             Message_list(f, "app_id_1", options)
    \/ /\ CallerMay("Message::create")
       /\ \E f \in 1..Len(facades),
             options \in Pick(few, PostOptionsInputs, PostOptionsFew) :
             Message_create(f, "app_id_1", "message_in_1", options)
    \/ /\ CallerMay("Message::get")
       /\ \E f \in 1..Len(facades) :
             Message_get(f, "app_id_1", "msg_id_1")
    \/ /\ CallerMay("Message::expunge_content")
       /\ \E f \in 1..Len(facades) :
             Message_expunge_content(f, "app_id_1", "msg_id_1")
    \/ /\ CallerMay("MessageAttempt::list_by_msg")
       /\ \E f \in 1..Len(facades),
             options \in Pick(few, MessageAttemptListOptionsInputs, MessageAttemptListOptionsFew) :
             MessageAttempt_list_by_msg(f, "app_id_1", "msg_id_1", options)
    \/ /\ CallerMay("MessageAttempt::list_by_endpoint")
       /\ \E f \in 1..Len(facades),
             options \in Pick(few, MessageAttemptListByEndpointOptionsInputs, MessageAttemptListByEndpointOptionsFew) :
             MessageAttempt_list_by_endpoint(f, "app_id_1", "endpoint_id_1",
                 options)
    \/ /\ CallerMay("MessageAttempt::list_attempted_messages")
       /\ \E f \in 1..Len(facades),
             options \in Pick(few, MessageAttemptListOptionsInputs, MessageAttemptListOptionsFew) :
             MessageAttempt_list_attempted_messages(f, "app_id_1",
                 "endpoint_id_1", options)
    \/ /\ CallerMay("MessageAttempt::list_attempted_destinations")
       /\ \E f \in 1..Len(facades),
             options \in Pick(few, ListOptionsInputs, ListOptionsFew) :
             MessageAttempt_list_attempted_destinations(f, "app_id_1",
                 "msg_id_1", options)
    \/ /\ CallerMay("MessageAttempt::list_attempts_for_endpoint")
       /\ \E f \in 1..Len(facades),
             options \in Pick(few, MessageAttemptListOptionsInputs, MessageAttemptListOptionsFew) :
             MessageAttempt_list_attempts_for_endpoint(f, "app_id_1",
                 "msg_id_1", "endpoint_id_1", options)
    \/ /\ CallerMay("MessageAttempt::get")
       /\ \E f \in 1..Len(facades) :
             MessageAttempt_get(f, "app_id_1", "msg_id_1", "attempt_id_1")
    \/ /\ CallerMay("MessageAttempt::resend")
       /\ \E f \in 1..Len(facades) :
             MessageAttempt_resend(f, "app_id_1", "msg_id_1", "endpoint_id_1")
    \/ /\ CallerMay("MessageAttempt::expunge_content")
       /\ \E f \in 1..Len(facades) :
             MessageAttempt_expunge_content(f, "app_id_1", "msg_id_1",
                 "attempt_id_1")
    \/ /\ CallerMay("OperationalWebhookEndpoint::list")
       /\ \E f \in 1..Len(facades),
             options \in Pick(few, OperationalWebhookEndpointListOptionsInputs, OperationalWebhookEndpointListOptionsFew) :
             OperationalWebhookEndpoint_list(f, options)
    \/ /\ CallerMay("OperationalWebhookEndpoint::create")
       /\ \E f \in 1..Len(facades),
             options \in Pick(few, PostOptionsInputs, PostOptionsFew) :
             OperationalWebhookEndpoint_create(f, "endpoint_in_1", options)
    \/ /\ CallerMay("OperationalWebhookEndpoint::get")
       /\ \E f \in 1..Len(facades) :
             OperationalWebhookEndpoint_get(f, "endpoint_id_1")
    \/ /\ CallerMay("OperationalWebhookEndpoint::update")
       /\ \E f \in 1..Len(facades),
             options \in Pick(few, PostOptionsInputs, PostOptionsFew) :
             OperationalWebhookEndpoint_update(f, "endpoint_id_1",
                 "endpoint_update_1", options)
    \/ /\ CallerMay("OperationalWebhookEndpoint::delete")
       /\ \E f \in 1..Len(facades) :
             OperationalWebhookEndpoint_delete(f, "endpoint_id_1")
    \/ /\ CallerMay("OperationalWebhookEndpoint::get_secret")
       /\ \E f \in 1..Len(facades) :
             OperationalWebhookEndpoint_get_secret(f, "endpoint_id_1")
    \/ /\ CallerMay("OperationalWebhookEndpoint::rotate_secret")
       /\ \E f \in 1..Len(facades) :
             OperationalWebhookEndpoint_rotate_secret(f, "endpoint_id_1",
                 "endpoint_secret_rotate_in_1")
    \/ /\ CallerMay("BackgroundTask::list")
       /\ \E f \in 1..Len(facades),
             options \in Pick(few, BackgroundTaskListOptionsInputs, BackgroundTaskListOptionsFew) :
             BackgroundTask_list(f, options)
    \/ /\ CallerMay("BackgroundTask::get")
       /\ \E f \in 1..Len(facades) :
             BackgroundTask_get(f, "task_id_1")
    \/ /\ CallerMay("Statistics::aggregate_app_stats")
       /\ \E f \in 1..Len(facades), stats_options \in AggregateAppStatsOptionsSet,
             options \in Pick(few, PostOptionsInputs, PostOptionsFew) :
             Statistics_aggregate_app_stats(f, stats_options, options)
    \/ /\ CallerMay("Statistics::aggregate_event_types")
       /\ \E f \in 1..Len(facades) :
             Statistics_aggregate_event_types(f)

Next ==
    \/ \E token \in FewTokens, options \in FewSvixOptions :
          facades = << >> /\ Svix_new(token, options)
    \/ \E f \in 1..Len(facades), token \in FewTokens : Svix_with_token(f, token)
    \/ \E f \in 1..Len(facades) : Svix_clone(f)
    \/ Calls(TRUE)
    \/ \E r \in DispatchResults : Respond(r)
    \/ Finish

Spec == Init /\ [][Next]_vars

-----------------------------------------------------------------------------
(* Calls through one facade, over every options argument *)

NextCalls ==
    \/ \E token \in FewTokens, options \in FewSvixOptions :
          facades = << >> /\ Svix_new(token, options)
    \/ Calls(FALSE)
    \/ \E r \in DispatchResults : Respond(r)
    \/ Finish

SpecCalls == Init /\ [][NextCalls]_vars

-----------------------------------------------------------------------------
(* Calls in flight on concurrent tasks.  A task calls                       *)
(* svix.message().expunge_content(..) on a facade it holds; the method      *)
(* hands self.cfg to the dispatch function, which builds the request from  *)
(* it some time later, while facades are cloned and re-tokened and other    *)
(* tasks call.                                                              *)

\* task t calls message().expunge_content on facade f
Task_issue(t, f) ==
    /\ f \in 1..Len(facades)
    /\ tasks[t] = None
    /\ tasks' = [tasks EXCEPT ![t] =
           Some([op |-> "Message::expunge_content", facade |-> f,
                 cfg |-> Svix_message(f).cfg, state |-> "issued",
                 request |-> None])]
    /\ UNCHANGED <<cfgs, facades, made, nclients, call>>

\* the dispatch function of task t builds its request from the Configuration
\* it was handed and sends it with that Configuration's client
Task_send(t) ==
    /\ tasks[t] # None
    /\ tasks[t][1].state = "issued"
    /\ LET cfg == cfgs[tasks[t][1].cfg]
       IN  tasks' = [tasks EXCEPT ![t] =
               Some([tasks[t][1] EXCEPT !.state = "sent",
                     !.request = Some([base_path |-> cfg.base_path,
                         bearer_access_token |-> cfg.bearer_access_token,
                         timeout |-> cfg.timeout, client |-> cfg.client])])]
    /\ UNCHANGED <<cfgs, facades, made, nclients, call>>

\* the dispatch call of task t returns
Task_complete(t) ==
    /\ tasks[t] # None
    /\ tasks[t][1].state = "sent"
    /\ tasks' = [tasks EXCEPT ![t] = None]
    /\ UNCHANGED <<cfgs, facades, made, nclients, call>>

NextTasks ==
    \/ \E token \in FewTokens, options \in FewSvixOptions :
          facades = << >> /\ Svix_new(token, options)
    \/ \E f \in 1..Len(facades), token \in FewTokens : Svix_with_token(f, token)
    \/ \E f \in 1..Len(facades) : Svix_clone(f)
    \/ \E t \in 1..MaxTasks, f \in 1..Len(facades) : Task_issue(t, f)
    \/ \E t \in 1..MaxTasks : Task_send(t)
    \/ \E t \in 1..MaxTasks : Task_complete(t)

SpecTasks == Init /\ [][NextTasks]_vars

-----------------------------------------------------------------------------
(* Vocabulary of the properties *)

Facades == 1..Len(facades)

\* the Configuration a facade holds
CfgOf(i) == cfgs[facades[i].cfg]

\* the facade built by Svix::new from which facade i descends
RECURSIVE RootOf(_)
RootOf(i) == IF made[i].by = "new" THEN i ELSE RootOf(made[i].self)

HasDot(token) == \E k \in 1..Len(token) : token[k] = DOT

\* the text after the last '.' of the token, the whole token if it has none
LastComponent(token) ==
    LET dots == { k \in 1..Len(token) : token[k] = DOT }
        from == IF dots = {} THEN 0 ELSE CHOOSE k \in dots : \A j \in dots : j <= k
    IN  SubSeq(token, from + 1, Len(token))

HostOfComponent(c) ==
    CASE c = <<"u", "s">> -> "https://api.us.svix.com"
      [] c = <<"e", "u">> -> "https://api.eu.svix.com"
      [] c = <<"i", "n">> -> "https://api.in.svix.com"
      [] OTHER -> "https://api.svix.com"

-----------------------------------------------------------------------------
\* C1: with no server_url override, the base URL of a facade made by
\* Svix::new or with_token is the host of the last '.'-separated component of
\* its token: us, eu and in give the regional hosts, every other component
\* (the empty one too) gives https://api.svix.com.
C1_RegionByLastComponent ==
    \A i \in Facades :
        facades[i].server_url = None =>
            CfgOf(i).base_path = HostOfComponent(LastComponent(made[i].token))

\* a facade built without override from the token sk.eu, re-tokened with
\* us.in, whose first component names another region than its last
C1_Witness ==
    \E i \in Facades :
        /\ made[i].by = "with_token"
        /\ facades[i].server_url = None
        /\ made[i].token = <<"u", "s", ".", "i", "n">>
        /\ CfgOf(i).base_path = "https://api.in.svix.com"
        /\ made[made[i].self].by = "new"
        /\ made[made[i].self].token = <<"s", "k", ".", "e", "u">>
        /\ CfgOf(made[i].self).base_path = "https://api.eu.svix.com"

\* C2 as stated: with no override, a token without any '.' never resolves to
\* a regional host.
C2_NoDotGivesDefault ==
    \A i \in Facades :
        (facades[i].server_url = None /\ ~HasDot(made[i].token)) =>
            CfgOf(i).base_path = "https://api.svix.com"

\* C2 amended: with no override, a token without any '.' resolves to
\* https://api.svix.com unless the whole token is us, eu or in, which is then
\* its own last component and resolves to that region's host.
C2_NoDotGivesDefaultUnlessRegionName ==
    \A i \in Facades :
        (facades[i].server_url = None /\ ~HasDot(made[i].token)) =>
            CfgOf(i).base_path =
                IF made[i].token = <<"u", "s">> THEN "https://api.us.svix.com"
                ELSE IF made[i].token = <<"e", "u">> THEN "https://api.eu.svix.com"
                ELSE IF made[i].token = <<"i", "n">> THEN "https://api.in.svix.com"
                ELSE "https://api.svix.com"

\* a facade built from the token sk and re-tokened with the empty token,
\* without override
C2_Witness ==
    \E i \in Facades :
        /\ made[i].by = "with_token"
        /\ facades[i].server_url = None
        /\ made[i].token = << >>
        /\ CfgOf(i).base_path = "https://api.svix.com"
        /\ made[made[i].self].by = "new"
        /\ made[made[i].self].token = <<"s", "k">>
        /\ CfgOf(made[i].self).base_path = "https://api.svix.com"

\* C3: when Svix::new was given a server_url override, the facade it returns
\* and every facade derived from it by with_token or clone holds that
\* override and has it as base URL, whatever the tokens.
C3_OverrideWins ==
    \A i \in Facades :
        LET options == made[RootOf(i)].options
        IN  (options # None /\ options[1].server_url # None) =>
                /\ facades[i].server_url = options[1].server_url
                /\ CfgOf(i).base_path = options[1].server_url[1]

\* a facade re-tokened with a token ending in .us under an override
C3_Witness ==
    \E i \in Facades :
        /\ made[i].by = "with_token"
        /\ LastComponent(made[i].token) = <<"u", "s">>
        /\ HasDot(made[i].token)
        /\ made[RootOf(i)].options # None
        /\ made[RootOf(i)].options[1].server_url = Some("https://custom.example")
        /\ CfgOf(i).base_path = "https://custom.example"

\* C4: the facade returned by with_token(token) has the override, timeout,
\* user-agent and transport handle of the facade it was called on, and the
\* new token as bearer token; its base URL is the same too when an override
\* is set.
C4_WithTokenFrame ==
    \A i \in Facades :
        made[i].by = "with_token" =>
            LET p == made[i].self
            IN  /\ facades[i].server_url = facades[p].server_url
                /\ CfgOf(i).timeout = CfgOf(p).timeout
                /\ CfgOf(i).user_agent = CfgOf(p).user_agent
                /\ CfgOf(i).client = CfgOf(p).client
                /\ CfgOf(i).bearer_access_token = Some(made[i].token)
                /\ facades[p].server_url # None =>
                       CfgOf(i).base_path = CfgOf(p).base_path

\* a re-tokening that changed both the token and the base URL
C4_Witness ==
    \E i \in Facades :
        /\ made[i].by = "with_token"
        /\ CfgOf(i).bearer_access_token # CfgOf(made[i].self).bearer_access_token
        /\ CfgOf(i).base_path # CfgOf(made[i].self).base_path
        /\ CfgOf(i).timeout = Some(30)

\* C6: the timeout of a facade built by Svix::new is 15 seconds when the
\* options are absent, and otherwise the options' timeout as given: Some(d)
\* stays Some(d) and None stays None.
C6_TimeoutAsRequested ==
    \A i \in Facades :
        made[i].by = "new" =>
            CfgOf(i).timeout =
                IF made[i].options = None THEN Some(15)
                ELSE made[i].options[1].timeout

\* a facade built with an explicit timeout of None
C6_Witness ==
    \E i \in Facades :
        /\ made[i].by = "new"
        /\ made[i].options # None
        /\ made[i].options[1].timeout = None
        /\ CfgOf(i).timeout = None

-----------------------------------------------------------------------------
(* Vocabulary of the properties about calls *)

ListOps ==
    { "Application::list", "Endpoint::list", "Integration::list",
      "EventType::list", "Message::list", "MessageAttempt::list_by_msg",
      "MessageAttempt::list_by_endpoint",
      "MessageAttempt::list_attempted_messages",
      "MessageAttempt::list_attempted_destinations",
      "MessageAttempt::list_attempts_for_endpoint",
      "OperationalWebhookEndpoint::list", "BackgroundTask::list" }

CreateOps ==
    { "Application::create", "Application::get_or_create", "Endpoint::create",
      "Endpoint::send_example", "Endpoint::replay_missing",
      "Integration::create", "EventType::create", "EventType::import_openapi",
      "Message::create", "OperationalWebhookEndpoint::create",
      "Authentication::dashboard_access", "Authentication::app_portal_access",
      "Authentication::logout" }

\* the update and patch methods, which take an Option<PostOptions>
UpdateOps ==
    { "Application::update", "Application::patch", "Endpoint::update",
      "Endpoint::patch", "Integration::update", "EventType::update",
      "EventType::patch", "OperationalWebhookEndpoint::update" }

\* the caller left the option `fld` out
Omitted(options, fld) ==
    IF options = None THEN TRUE
    ELSE IF fld \notin DOMAIN options[1] THEN TRUE
    ELSE options[1][fld] = None

\* the fields the caller set in the options argument
SetFields(options) ==
    IF options = None THEN {}
    ELSE { fld \in DOMAIN options[1] : options[1][fld] # None }

\* the option fields a method destructures with `_`
Discarded(op) ==
    CASE op = "MessageAttempt::list_by_endpoint" -> { "endpoint_id" }
      [] op = "MessageAttempt::list_attempted_messages" ->
            { "status_code_class", "endpoint_id" }
      [] op = "MessageAttempt::list_attempts_for_endpoint" ->
            { "status_code_class", "endpoint_id", "with_content" }
      [] OTHER -> {}

-----------------------------------------------------------------------------
C7_OmittedOptionsAreAbsent ==
    (call # None /\ call[1].op \in ListOps) =>
        \A w \in (DOMAIN call[1].params) \ (DOMAIN call[1].args) :
            Omitted(call[1].options, w) => call[1].params[w] = None

\* Message::list with only the limit set: the limit is passed, the other
\* parameters are None
C7_Witness ==
    /\ call # None
    /\ call[1].op = "Message::list"
    /\ SetFields(call[1].options) = { "limit" }
    /\ call[1].params.limit = Some(50)
    /\ \A w \in { "iterator", "event_types", "before", "after", "channel",
                  "with_content", "tag" } : call[1].params[w] = None

\* C8 as stated: in a call of a method that merges its options struct, every
\* field the caller set is the value of the parameter of that name, which is
\* not one fed from a positional argument.
C8_EveryFieldCopied ==
    (call # None /\ call[1].op \notin UpdateOps) =>
        \A fld \in SetFields(call[1].options) :
            /\ fld \in DOMAIN call[1].params
            /\ fld \notin DOMAIN call[1].args
            /\ call[1].params[fld] = call[1].options[1][fld]

\* What the methods do instead: every field the caller set is the value of
\* the parameter of that name, except the fields the method discards with a
\* `_` pattern: a discarded endpoint_id
\* leaves the positional endpoint_id as the parameter, and a discarded
\* status_code_class or with_content has no parameter at all.
C8_EveryKeptFieldCopied ==
    (call # None /\ call[1].op \notin UpdateOps) =>
        \A fld \in SetFields(call[1].options) :
            IF fld \in Discarded(call[1].op)
            THEN IF fld \in DOMAIN call[1].args
                 THEN call[1].params[fld] = call[1].args[fld]
                 ELSE fld \notin DOMAIN call[1].params
            ELSE /\ fld \in DOMAIN call[1].params
                 /\ call[1].params[fld] = call[1].options[1][fld]

\* list_attempted_messages with every option set: status is passed, the
\* endpoint_id is the positional one, status_code_class is not a parameter
C8_Witness ==
    /\ call # None
    /\ call[1].op = "MessageAttempt::list_attempted_messages"
    /\ SetFields(call[1].options) = DOMAIN MessageAttemptListOptions_default
    /\ call[1].params.status = Some("Success")
    /\ call[1].params.before = Some("2024-04-01T00:00:00Z")
    /\ call[1].options[1].endpoint_id = Some("endpoint_id_2")
    /\ call[1].params.endpoint_id = "endpoint_id_1"
    /\ "status_code_class" \notin DOMAIN call[1].params

\* C9: in a call of a create-style method the idempotency_key parameter is
\* the caller's key, None when the options are absent or carry no key, in
\* the first call and in every repetition of it.
C9_IdempotencyKeyForwarded ==
    (call # None /\ call[1].op \in CreateOps) =>
        call[1].params.idempotency_key =
            IF call[1].options = None THEN None
            ELSE call[1].options[1].idempotency_key

\* a repeated Message::create that carries the caller's key again
C9_Witness ==
    /\ call # None
    /\ call[1].op = "Message::create"
    /\ call[1].retry
    /\ call[1].options = Some([idempotency_key |-> Some("idempotency_key_1")])
    /\ call[1].params.idempotency_key = Some("idempotency_key_1")

\* C10: Application::create and Application::get_or_create call the same
\* dispatch function, and for the same application_in and options their
\* parameters differ in get_if_exists only: None for create, Some(true) for
\* get_or_create.
C10_CreateVsGetOrCreate ==
    call # None =>
        /\ call[1].op = "Application::create" =>
              /\ call[1].api = "application_api::v1_period_application_period_create"
              /\ call[1].params.get_if_exists = None
              /\ call[1].params =
                    [Application_get_or_create_params(
                         call[1].args.application_in, call[1].options)
                     EXCEPT !.get_if_exists = None]
        /\ call[1].op = "Application::get_or_create" =>
              /\ call[1].api = "application_api::v1_period_application_period_create"
              /\ call[1].params.get_if_exists = Some(TRUE)
              /\ call[1].params =
                    [Application_create_params(
                         call[1].args.application_in, call[1].options)
                     EXCEPT !.get_if_exists = Some(TRUE)]

\* a get_or_create with a key: the flag is Some(true), the rest as given
C10_Witness ==
    /\ call # None
    /\ call[1].op = "Application::get_or_create"
    /\ call[1].params =
           [application_in |-> "application_in_2",
            idempotency_key |-> Some("idempotency_key_1"),
            get_if_exists |-> Some(TRUE)]

-----------------------------------------------------------------------------
\* C11: in a call of an update or patch method there is no idempotency_key
\* parameter, and the parameters are the positional arguments, one each and
\* nothing else, whatever the options argument is: absent, empty or carrying
\* an idempotency key.
C11_UpdateIgnoresOptions ==
    (call # None /\ call[1].op \in UpdateOps) =>
        /\ "idempotency_key" \notin DOMAIN call[1].params
        /\ Cardinality(DOMAIN call[1].params) = Cardinality(DOMAIN call[1].args)
        /\ \A w \in DOMAIN call[1].params :
              \E a \in DOMAIN call[1].args : call[1].params[w] = call[1].args[a]
        /\ \A a \in DOMAIN call[1].args :
              \E w \in DOMAIN call[1].params : call[1].params[w] = call[1].args[a]

\* an Application::update given an idempotency key that is not passed on
C11_Witness ==
    /\ call # None
    /\ call[1].op = "Application::update"
    /\ call[1].options = Some([idempotency_key |-> Some("idempotency_key_1")])
    /\ call[1].api = "application_api::v1_period_application_period_update"
    /\ call[1].params =
           [app_id |-> "app_id_1", application_in |-> "application_in_1"]

\* C12: an error the dispatch function returns is what the method returns,
\* of the same kind; the method returns a success only when the dispatch
\* function did, and returns nothing before the dispatch function has.
C12_ErrorsPassThrough ==
    call # None =>
        /\ call[1].state = "awaiting" => call[1].ret = None
        /\ call[1].state = "returned" =>
              /\ call[1].result # None /\ call[1].ret # None
              /\ ~call[1].result[1].ok => call[1].ret = call[1].result
              /\ call[1].ret[1].ok => call[1].result[1].ok

\* transformation_partial_update, which maps a success to (), returns the
\* serialization error of its dispatch call
C12_Witness ==
    /\ call # None
    /\ call[1].op = "Endpoint::transformation_partial_update"
    /\ call[1].state = "returned"
    /\ call[1].result = Some(Err("serialization"))
    /\ call[1].ret = Some(Err("serialization"))

\* C13: recover, replay_missing and resend return Ok(()) exactly when their
\* dispatch call succeeded, whatever it returned, and its error otherwise.
C13_UnitIffDispatchOk ==
    (/\ call # None
     /\ call[1].op \in { "Endpoint::recover", "Endpoint::replay_missing",
                         "MessageAttempt::resend" }
     /\ call[1].state = "returned") =>
        /\ call[1].ret = Some(Ok("unit")) <=> call[1].result[1].ok
        /\ ~call[1].result[1].ok => call[1].ret = call[1].result

\* recover throws away the body its dispatch call returned
C13_Witness ==
    /\ call # None
    /\ call[1].op = "Endpoint::recover"
    /\ call[1].state = "returned"
    /\ call[1].result = Some(Ok("response"))
    /\ call[1].ret = Some(Ok("unit"))

\* C14: a call of a method is one dispatch call: one while it is awaited,
\* still one when it has returned, a success or an error; and a call is
\* never returned without the result of its own dispatch call.
C14_OneDispatchPerCall ==
    call # None =>
        /\ call[1].dispatches = 1
        /\ call[1].state = "awaiting" => call[1].result = None
        /\ call[1].state = "returned" => call[1].result # None

\* a repeated Application::get that failed again after its one dispatch call
C14_Witness ==
    /\ call # None
    /\ call[1].op = "Application::get"
    /\ call[1].retry
    /\ call[1].state = "returned"
    /\ call[1].result = Some(Err("transport"))
    /\ call[1].dispatches = 1

-----------------------------------------------------------------------------
\* the sub-clients the accessors of facade f return
SubClients(f) ==
    { Svix_authentication(f), Svix_application(f), Svix_background_task(f),
      Svix_endpoint(f), Svix_integration(f), Svix_event_type(f),
      Svix_message(f), Svix_message_attempt(f),
      Svix_operational_webhook_endpoint(f), Svix_statistics(f) }

\* what facade i was made with: its token, the override and the timeout of
\* the options of the Svix::new it descends from
TokenOf(i) == made[i].token

OptionsOf(i) == unwrap_or(made[RootOf(i)].options, SvixOptions_default)

BaseUrlOf(i) ==
    unwrap_or(OptionsOf(i).server_url, HostOfComponent(LastComponent(TokenOf(i))))

\* C15: every accessor of every facade returns a sub-client that holds the
\* Configuration of that facade; a step that constructs, re-tokens or clones
\* a facade yields one more facade, leaves the facades there are as they
\* were and issues, answers and ends no call; and a step that issues a call
\* is a step of a method of a sub-client, which leaves every facade alone.
C15_OnlyMethodsDispatch ==
    /\ [](\A f \in Facades : \A sub \in SubClients(f) : sub.cfg = facades[f].cfg)
    /\ [][ /\ <<cfgs, facades, made, nclients>>' # <<cfgs, facades, made, nclients>>
              => /\ call' = call
                 /\ tasks' = tasks
                 /\ Len(facades') = Len(facades) + 1
                 /\ SubSeq(facades', 1, Len(facades)) = facades
           /\ (call' # call /\ call' # None /\ call'[1].state = "awaiting")
              => /\ <<cfgs, facades, made, nclients>>' = <<cfgs, facades, made, nclients>>
                 /\ call'[1].cfg = facades[call'[1].facade].cfg
         ]_vars

\* a call awaited through the message sub-client of a second facade, which
\* holds another Configuration than the first; one client was ever built
C15_Witness ==
    /\ Len(facades) = 2
    /\ facades[2].cfg # facades[1].cfg
    /\ nclients = 1
    /\ call # None
    /\ call[1].state = "awaiting"
    /\ call[1].op = "Message::expunge_content"
    /\ call[1].facade = 2
    /\ call[1].cfg = Svix_message(2).cfg

\* C16: the request of every call in flight on any task carries the token,
\* the base URL and the timeout of the facade the call was issued through,
\* whatever facades were cloned or re-tokened and whatever other tasks
\* called in the meantime; all requests go through the one client.
C16_RequestsCarryOwnFacade ==
    \A t \in 1..MaxTasks :
        (tasks[t] # None /\ tasks[t][1].state = "sent") =>
            LET f == tasks[t][1].facade
                request == tasks[t][1].request[1]
            IN  /\ request.bearer_access_token = Some(TokenOf(f))
                /\ request.base_path = BaseUrlOf(f)
                /\ request.timeout = OptionsOf(f).timeout
                /\ request.client = CfgOf(RootOf(f)).client

\* two requests in flight at once, through a facade and through a facade
\* re-tokened from it, with different tokens and base URLs and one client
C16_Witness ==
    /\ tasks[1] # None /\ tasks[1][1].state = "sent"
    /\ tasks[2] # None /\ tasks[2][1].state = "sent"
    /\ tasks[1][1].facade = 1
    /\ made[tasks[2][1].facade].by = "with_token"
    /\ made[tasks[2][1].facade].self = 1
    /\ tasks[1][1].request[1].bearer_access_token
           # tasks[2][1].request[1].bearer_access_token
    /\ tasks[1][1].request[1].base_path # tasks[2][1].request[1].base_path
    /\ tasks[1][1].request[1].client = tasks[2][1].request[1].client

-----------------------------------------------------------------------------
\* C18: in a call of Statistics::aggregate_app_stats the body has the
\* caller's since and until, which are plain strings, and the caller's
\* app_ids, None when the caller set none; and the idempotency_key parameter
\* is the key of the PostOptions, None when there is none.
C18_AppStatsBodyForwarded ==
    (call # None /\ call[1].op = "Statistics::aggregate_app_stats") =>
        LET body == call[1].params.app_usage_stats_in
            stats_options == call[1].args.stats_options
        IN  /\ DOMAIN call[1].params = { "app_usage_stats_in", "idempotency_key" }
            /\ body.since = stats_options.since
            /\ body.since \in STRING
            /\ body.until = stats_options.until
            /\ body.until \in STRING
            /\ body.app_ids = stats_options.app_ids
            /\ call[1].params.idempotency_key =
                   IF call[1].options = None THEN None
                   ELSE call[1].options[1].idempotency_key

\* a call with a range, no app_ids and a key
C18_Witness ==
    /\ call # None
    /\ call[1].op = "Statistics::aggregate_app_stats"
    /\ call[1].args.stats_options.app_ids = None
    /\ call[1].params =
           [app_usage_stats_in |->
                [app_ids |-> None, since |-> "2024-01-01T00:00:00Z",
                 until |-> "2024-02-01T00:00:00Z"],
            idempotency_key |-> Some("idempotency_key_1")]

\* C19: the user agent of every Configuration there is, the one Svix::new
\* builds first included, is svix-libs/<crate version>/rust, whatever the
\* token and the options and however often the facade was re-tokened.
C19_UserAgentFixed ==
    \A c \in 1..Len(cfgs) :
        cfgs[c].user_agent = Some(<<"svix-libs", "/", CRATE_VERSION, "/", "rust">>)

\* a facade re-tokened from one built with options of the caller
C19_Witness ==
    \E i \in Facades :
        /\ made[i].by = "with_token"
        /\ made[RootOf(i)].options # None
        /\ made[i].token # made[made[i].self].token
        /\ CfgOf(i).user_agent = Some(<<"svix-libs", "/", CRATE_VERSION, "/", "rust">>)

\* C20: every facade holds a Configuration whose bearer token is the token
\* it was made with (for a clone, that of the facade cloned) and whose base
\* URL is the override, or else the host of that token's region; no facade
\* holds and no call is issued with the Configuration that Svix::new builds
\* first, which has no token and an empty base URL.
C20_FacadesAreTokened ==
    /\ \A i \in Facades :
          /\ CfgOf(i).bearer_access_token = Some(TokenOf(i))
          /\ CfgOf(i).base_path = BaseUrlOf(i)
          /\ CfgOf(i).base_path # ""
    /\ call # None =>
          /\ call[1].configuration.bearer_access_token # None
          /\ call[1].configuration.base_path # ""
          /\ call[1].configuration = CfgOf(call[1].facade)

\* a call through a facade of Svix::new, whose first Configuration is still
\* in memory without a token
C20_Witness ==
    /\ Len(facades) >= 1
    /\ made[1].by = "new"
    /\ cfgs[1].bearer_access_token = None
    /\ cfgs[1].base_path = ""
    /\ facades[1].cfg = 2
    /\ CfgOf(1).base_path = "https://api.eu.svix.com"
    /\ call # None
    /\ call[1].facade = 1
    /\ call[1].cfg = 2

-----------------------------------------------------------------------------
\* the Configuration Svix::new(token, options) returns, whose client is the
\* one numbered `client`
ConfigurationOfNew(token, options, client) ==
    LET opts == unwrap_or(options, SvixOptions_default)
    IN  with_token_cfg(new_cfg(opts, client), opts.server_url, token)

\* C21: the facade at the end of any chain of with_token and clone calls
\* that starts at Svix::new(_, O) and whose last token is t has the token,
\* base URL, timeout and user agent of the Configuration of Svix::new(t, O),
\* and O's override: the tokens in between leave no trace.
C21_RetokeningForgetsHistory ==
    \A i \in Facades :
        LET options == made[RootOf(i)].options
            fresh == ConfigurationOfNew(TokenOf(i), options, CfgOf(i).client)
        IN  /\ CfgOf(i).bearer_access_token = fresh.bearer_access_token
            /\ CfgOf(i).base_path = fresh.base_path
            /\ CfgOf(i).timeout = fresh.timeout
            /\ CfgOf(i).user_agent = fresh.user_agent
            /\ facades[i].server_url =
                   unwrap_or(options, SvixOptions_default).server_url

\* a facade of Svix::new with a token of the eu region and no override,
\* re-tokened with a token of no region: it is back at the default host
C21_Witness ==
    \E i \in Facades :
        /\ made[i].by = "with_token"
        /\ made[made[i].self].by = "new"
        /\ made[made[i].self].options = None
        /\ TokenOf(made[i].self) = <<"s", "k", DOT, "e", "u">>
        /\ CfgOf(made[i].self).base_path = "https://api.eu.svix.com"
        /\ TokenOf(i) = <<"s", "k">>
        /\ CfgOf(i).base_path = "https://api.svix.com"

\* C22: the parameters a caller cannot set are None in every call:
\* idempotency_key of Endpoint::rotate_secret, Endpoint::recover,
\* Integration::rotate_key, MessageAttempt::resend and
\* OperationalWebhookEndpoint::rotate_secret; with_content of Message::create
\* and Message::get; expunge of EventType::delete; order of EventType::list.
C22_UnsettableParamsAreNone ==
    call # None =>
        /\ call[1].op \in { "Endpoint::rotate_secret", "Endpoint::recover",
                            "Integration::rotate_key", "MessageAttempt::resend",
                            "OperationalWebhookEndpoint::rotate_secret" }
              => /\ "idempotency_key" \in DOMAIN call[1].params
                 /\ call[1].params.idempotency_key = None
        /\ call[1].op \in { "Message::create", "Message::get" }
              => /\ "with_content" \in DOMAIN call[1].params
                 /\ call[1].params.with_content = None
        /\ call[1].op = "EventType::delete"
              => /\ "expunge" \in DOMAIN call[1].params
                 /\ call[1].params.expunge = None
        /\ call[1].op = "EventType::list"
              => /\ "order" \in DOMAIN call[1].params
                 /\ call[1].params.order = None

\* an EventType::list with a limit: the limit is passed and order is None
C22_Witness ==
    /\ call # None
    /\ call[1].op = "EventType::list"
    /\ SetFields(call[1].options) = { "limit" }
    /\ call[1].params.limit = Some(50)
    /\ call[1].params.order = None

====
